---- MODULE Spec2Model ----
(***************************************************************************)
(* State-machine model of the cache drivers of warlockjs/cache:            *)
(*   - key canonicalisation (parseCacheKey),                               *)
(*   - BaseCacheDriver.remember and its lock table,                        *)
(*   - LRUMemoryCacheDriver (index + intrusive doubly linked list),        *)
(*   - MemoryCacheDriver / MemoryExtendedCacheDriver (nested store, sweep),*)
(*   - TaggedCache (tag index decorator).                                  *)
(* Each subsystem has its own specification over its own variables; the    *)
(* variables of the other subsystems stay at their initial values.         *)
(*                                                                         *)
(* Asynchrony: every `await this.emit(...)` is a suspension point.  Event  *)
(* handlers registered with on() may be async and of any duration (emit    *)
(* awaits Promise.allSettled of their results), so suspended calls resume  *)
(* in any order.  Code between two suspension points is one atomic step.   *)
(***************************************************************************)
EXTENDS Integers, Sequences, FiniteSets, TLC

VARIABLES
  \* ---- BaseCacheDriver.remember ----
  store,      \* canonical key -> cached value or Null (the driver's entries)
  locks,      \* BaseCacheDriver.locks: canonical key -> ticket or NoTicket
  tickets,    \* the promise chain created per producer invocation
  callers,    \* the remember() calls: position, key, what get() read, result
  leader,     \* history: per key, the first unresolved remember() issued on a miss
  \* ---- LRUMemoryCacheDriver ----
  capacity,   \* options.capacity
  cache,      \* Map<string, CacheNode>: canonical key -> node or NullNode
  nodes,      \* CacheNode.key / value / expiresAt of every node object
  list,       \* CacheNode.next / prev of every node object and of head, tail
  sweep,      \* the running cleanup callback: the keys it has still to visit
  recency,    \* history: the keys by most recent successful get or set, newest first
  evicted,    \* history: the key the last operation evicted for capacity, or <<>>
  \* ---- the clock of the in-process drivers ----
  now,        \* what Date.now() returns, in seconds
  \* ---- MemoryCacheDriver / MemoryExtendedCacheDriver ----
  memOptions,    \* options.globalPrefix and the driver class (name)
  data,          \* MemoryCacheDriver.data: canonical path -> CacheData or Absent
  temporaryData, \* MemoryCacheDriver.temporaryData: canonical key -> {key, expiresAt}
  accessOrder,   \* MemoryCacheDriver.accessOrder: canonical keys, least recently used first
  memSweep,      \* the running cleanup callback: position, keys to visit, its `now`
  watch,         \* history: per key, the events since its last set with a finite ttl
  memRet,        \* history: what the get of the last step returned, else NoRet
  memEvents,     \* the hit / miss events the last get emitted, in order
  \* ---- TaggedCache over a wrapped driver ----
  tagOptions,    \* options.globalPrefix of the wrapped driver
  wrapped,       \* the wrapped driver: map (canonical key -> entry), order of last use
  tagged,        \* history: per tag, the raw keys set under it and not yet released
  tagCalls,      \* the tagged set / remember calls under way: position and locals
  produced,      \* how many times the producer of remember has been invoked
  \* ---- values as object graphs ----
  copyDriver,    \* the driver class: "memory" or "lru"
  heap,          \* the objects: reference -> fields, or FreeObj
  entries,       \* canonical key -> the stored value (a primitive or a reference)
  copyRet,       \* what the last get returned (a primitive or a reference)
  \* ---- increment / decrement ----
  counters,      \* the entries of the driver underneath: canonical key -> value
  incRet,        \* what the last increment or decrement gave: an error or a number
  incCalls,      \* the increment calls under way: position, key, delta, value read
  \* ---- CacheManager ----
  drivers,              \* the driver objects: name and registered (event, handler) pairs
  loadedDrivers,        \* CacheManager.loadedDrivers: name -> driver or NoInst
  currentDriver,        \* CacheManager.currentDriver (NoInst: undefined)
  globalEventListeners, \* CacheManager.globalEventListeners, as (event, handler) pairs
  calls,                \* the load / driver / use / init calls: position, name, driver
  mgrRet,               \* how the forwarding operation of the last step ended
  \* ---- BaseCacheDriver.emit ----
  eventListeners,       \* the handlers of one event, in registration order
  emitted,              \* the last emission: handlers invoked, promises, errors logged
  emitOp,               \* the operation that emits: which one, and its position
  onceHandlers,         \* the handlers given to once(): registered, invoked, pending
  onceEmits,            \* how many emissions of the event have started
  \* ---- set(key, value, ttl) of each driver ----
  ttlOptions,           \* the driver: its name and the ttl of its options
  ttlEntries,           \* canonical key -> the entry the driver stores
  ttlLast,              \* history: per key, the ttl argument and time of the last set
  ttlRet,               \* what the last get returned
  \* ---- the cleanup timer of a memory / LRU driver ----
  timerDriver,          \* the driver class (name)
  cleanupInterval,      \* this.cleanupInterval: a timer, or 0 for undefined
  timers,               \* the timers setInterval made that are not cleared
  created,              \* how many timers setInterval has made
  sweeping,             \* cleanup callbacks that are running (suspended at an await)
  ticked,               \* the timer whose callback started last (0: none yet)
  disc,                 \* position of the disconnect() call
  stopped               \* disconnect() completed and startCleanup not called since

remVars == <<store, locks, tickets, callers, leader>>
lruVars == <<capacity, cache, nodes, list, sweep, recency, evicted>>
memVars == <<memOptions, data, temporaryData, accessOrder, memSweep, watch, memRet,
            memEvents>>

tagVars == <<tagOptions, wrapped, tagged, tagCalls, produced>>
copyVars == <<copyDriver, heap, entries, copyRet>>
incVars == <<counters, incRet, incCalls>>
mgrVars == <<drivers, loadedDrivers, currentDriver, globalEventListeners, calls, mgrRet>>
emitVars == <<eventListeners, emitted, emitOp, onceHandlers, onceEmits>>
ttlVars == <<ttlOptions, ttlEntries, ttlLast, ttlRet>>
timerVars == <<timerDriver, cleanupInterval, timers, created, sweeping, ticked, disc, stopped>>

vars == <<remVars, lruVars, now, memVars, tagVars, copyVars, incVars, mgrVars, emitVars,
          ttlVars, timerVars>>

Null == "null"
Fail == "fail"

(***************************************************************************)
(* Key canonicalisation.  A key string is a sequence of tokens: a token is *)
(* a structural character or a maximal run of ordinary characters.  An     *)
(* object key is given by its JSON text (JSON.stringify, utils.ts 11-13).  *)
(***************************************************************************)
Delims == {"{", "}", "\"", "[", "]"}
Seps == {":", ","}

RECURSIVE rtrim(_)
rtrim(s) ==
  IF s # <<>> /\ s[Len(s)] = "." THEN rtrim(SubSeq(s, 1, Len(s) - 1)) ELSE s

StripKey(key) ==
  LET kept == SelectSeq(key, LAMBDA t : t \notin Delims)
  IN  [i \in 1..Len(kept) |-> IF kept[i] \in Seps THEN "." ELSE kept[i]]

\* prefix <<>> models an absent (or empty, hence falsy) globalPrefix
parseCacheKey(key, cachePrefix) ==
  LET k == StripKey(key)
  IN  rtrim(IF cachePrefix # <<>> THEN rtrim(cachePrefix) \o <<".">> \o k ELSE k)

(***************************************************************************)
(* LRUMemoryCacheDriver: the index `cache`, the node objects, and the      *)
(* doubly linked list between the permanent sentinels head and tail.       *)
(* Time is in seconds: expiresAt = Date.now() + ttl * 1000 ms.             *)
(***************************************************************************)
\* the configured values of options.capacity that are explored; the value 0
\* stands for the option left out (undefined is falsy like 0)
Capacities == {1, 2}
DefaultCapacity == 1000
MaxTime == 3
NoExpiry == 0        \* expiresAt undefined (falsy, like the timestamp 0)
Infinity == 1000
Undefined == 0 - 1   \* the ttl argument left out

LruRawKeys == {<<"a">>, <<"b">>, <<"c">>}
LruPrefix == <<>>
LruParseKey(key) == parseCacheKey(key, LruPrefix)
LruKeys == {LruParseKey(k) : k \in LruRawKeys}
LruValues == {"1", "2"}
LruTtls == {Undefined, 0, 1, Infinity}

Nodes == {"n1", "n2", "n3"}
head == "head"
tail == "tail"
NullNode == "nil"
BlankNode == [key |-> <<>>, value |-> Null, expiresAt |-> NoExpiry]

\* init(): head.next = tail; tail.prev = head
init(L) == [next |-> [L.next EXCEPT ![head] = tail],
            prev |-> [L.prev EXCEPT ![tail] = head]]

InitList == init([next |-> [n \in Nodes \cup {head, tail} |-> NullNode],
                  prev |-> [n \in Nodes \cup {head, tail} |-> NullNode]])

\* BaseCacheDriver.ttl, the default TTL: options.ttl is not configured
DefaultTtl == Infinity

\* get ttl(): options.ttl !== undefined ? options.ttl : Infinity
optionsTtl(o) == IF o.ttl # Undefined THEN o.ttl ELSE Infinity

\* CacheNode constructor / set(): the absolute expiry of a write
ExpiresAt(ttl, t) == IF ttl # 0 /\ ttl # Infinity THEN t + ttl ELSE NoExpiry

\* CacheNode.isExpired
isExpired(n) == nodes[n].expiresAt # NoExpiry /\ nodes[n].expiresAt < now

\* the mutants of removeNode and moveHead: the successor's prev pointer is not
\* repaired / an accessed node keeps its place
removeNodeNoPrev(L, n) == [L EXCEPT !.next[L.prev[n]] = L.next[n]]
moveHeadStay(L, n) == L

\* removeNode(node): node.prev.next = node.next; node.next.prev = node.prev
removeNode(L, n) ==
  LET L1 == [L EXCEPT !.next[L.prev[n]] = L.next[n]]
  IN  [L1 EXCEPT !.prev[L1.next[n]] = L1.prev[n]]

\* addNode(node): link the node right after head
addNode(L, n) ==
  LET L1 == [L EXCEPT !.next[n] = L.next[head]]
      L2 == [L1 EXCEPT !.prev[n] = head]
      L3 == [L2 EXCEPT !.prev[L2.next[head]] = n]
  IN  [L3 EXCEPT !.next[head] = n]

moveHead(L, n) == addNode(removeNode(L, n), n)

\* the mutant of lruCapacity: room for one entry more than configured
lruCapacityOneMore == (IF capacity # 0 THEN capacity ELSE DefaultCapacity) + 1

\* get capacity(): this.options.capacity || 1000
lruCapacity == IF capacity # 0 THEN capacity ELSE DefaultCapacity

\* history: k becomes the most recently used key / k leaves the store
Touch(r, k) == <<k>> \o SelectSeq(r, LAMBDA x : x # k)
Forget(r, k) == SelectSeq(r, LAMBDA x : x # k)

\* `new CacheNode(...)` yields an object no reference points to
FreshNode == CHOOSE n \in Nodes : \A k \in LruKeys : cache[k] # n

\* Node objects the index no longer holds are garbage: the model keeps no field
\* of them (a pointer to such an object left in the list shows up as NullNode)
Held(c) == {c[k] : k \in LruKeys} \ {NullNode}
KeepNodes(N, c) == [n \in Nodes |-> IF n \in Held(c) THEN N[n] ELSE BlankNode]
KeepList(L, c) ==
  [next |-> [n \in Nodes \cup {head, tail} |->
               IF n \in Nodes \ Held(c) THEN NullNode ELSE L.next[n]],
   prev |-> [n \in Nodes \cup {head, tail} |->
               IF n \in Nodes \ Held(c) THEN NullNode ELSE L.prev[n]]]

\* set(key, value, ttl)
LruSet(key, value, ttlArg) ==
  LET k == LruParseKey(key)
      ttl == IF ttlArg = Undefined THEN DefaultTtl ELSE ttlArg
      n == cache[k]
  IN  /\ IF n # NullNode
         THEN /\ nodes' = [nodes EXCEPT ![n].value = value,
                                        ![n].expiresAt = ExpiresAt(ttl, now)]
              /\ list' = moveHead(list, n)
              /\ cache' = cache
              /\ recency' = Touch(recency, k)
              /\ evicted' = <<>>
         ELSE \E f \in {FreshNode} :
              \E L1 \in {addNode([list EXCEPT !.next[f] = NullNode,
                                               !.prev[f] = NullNode], f)} :
              \E t \in {L1.prev[tail]} :                 \* removeTail()
              LET c1 == [cache EXCEPT ![k] = f]
                  over == Cardinality({x \in LruKeys : c1[x] # NullNode}) > lruCapacity
                  vk == IF t = f THEN k ELSE nodes[t].key
              IN  \E c2 \in {IF over THEN [c1 EXCEPT ![vk] = NullNode] ELSE c1} :
                  \E L2 \in {IF over THEN removeNode(L1, t) ELSE L1} :
                  /\ cache' = c2
                  /\ nodes' = KeepNodes([nodes EXCEPT ![f] =
                                 [key |-> k, value |-> value,
                                  expiresAt |-> ExpiresAt(ttl, now)]], c2)
                  /\ list' = KeepList(L2, c2)
                  /\ recency' = IF over THEN Forget(Touch(recency, k), vk)
                                ELSE Touch(recency, k)
                  /\ evicted' = IF over THEN vk ELSE <<>>
      /\ UNCHANGED <<capacity, now, sweep>>

\* get(key): a miss, an expired node (unlinked and deleted), or a hit (moved to head)
LruGet(key) ==
  LET k == LruParseKey(key)
      n == cache[k]
  IN  /\ IF n = NullNode
         THEN UNCHANGED <<cache, nodes, list, recency>>
         ELSE IF isExpired(n)
         THEN /\ cache' = [cache EXCEPT ![k] = NullNode]
              /\ list' = KeepList(removeNode(list, n), cache')
              /\ nodes' = KeepNodes(nodes, cache')
              /\ recency' = Forget(recency, k)
         ELSE /\ list' = moveHead(list, n)
              /\ UNCHANGED <<cache, nodes>>
              /\ recency' = Touch(recency, k)
      /\ evicted' = <<>>
      /\ UNCHANGED <<capacity, now, sweep>>

\* has(key): `const value = await this.get(key); return value !== null`; what
\* it returns, and what it does
lruHasResult(key) ==
  LET n == cache[LruParseKey(key)]
  IN  n # NullNode /\ ~isExpired(n) /\ nodes[n].value # Null
LruHas(key) == LruGet(key)

\* remove(key)
LruRemove(key) ==
  LET k == LruParseKey(key)
      n == cache[k]
  IN  /\ IF n # NullNode
         THEN /\ cache' = [cache EXCEPT ![k] = NullNode]
              /\ list' = KeepList(removeNode(list, n), cache')
              /\ nodes' = KeepNodes(nodes, cache')
         ELSE UNCHANGED <<cache, nodes, list>>
      /\ recency' = Forget(recency, k)
      /\ evicted' = <<>>
      /\ UNCHANGED <<capacity, now, sweep>>

\* flush(): this.cache.clear(); this.init()
LruFlush ==
  /\ cache' = [k \in LruKeys |-> NullNode]
  /\ list' = KeepList(init(list), cache')
  /\ nodes' = KeepNodes(nodes, cache')
  /\ recency' = <<>>
  /\ evicted' = <<>>
  /\ UNCHANGED <<capacity, now, sweep>>

Perms(S) ==
  {q \in [1..Cardinality(S) -> S] : \A i, j \in DOMAIN q : i # j => q[i] # q[j]}

RECURSIVE DropAbsent(_)
DropAbsent(q) ==
  IF q # <<>> /\ cache[Head(q)] = NullNode THEN DropAbsent(Tail(q)) ELSE q

\* the keys the cleanup callback collects: node.expiresAt && node.expiresAt <= now
ExpiredKeys ==
  {k \in LruKeys : /\ cache[k] # NullNode
                   /\ nodes[cache[k]].expiresAt # NoExpiry
                   /\ nodes[cache[k]].expiresAt <= now}

\* the loop over expiredKeys up to its next `await this.emit("expired")`: keys
\* whose node is gone are passed over, the next node found is unlinked and deleted
SweepVisit(q) ==
  LET rest == DropAbsent(q)
  IN  IF rest = <<>>
      THEN /\ sweep' = <<>>
           /\ UNCHANGED <<cache, nodes, list, recency>>
      ELSE /\ cache' = [cache EXCEPT ![Head(rest)] = NullNode]
           /\ list' = KeepList(removeNode(list, cache[Head(rest)]), cache')
           /\ nodes' = KeepNodes(nodes, cache')
           /\ recency' = Forget(recency, Head(rest))
           /\ sweep' = Tail(rest)

\* the interval fires: the callback scans the index and visits the first key.
\* The Map is scanned in insertion order, which the model does not track:
\* any order of the expired keys is taken.
SweepStart ==
  /\ sweep = <<>>
  /\ ExpiredKeys # {}
  /\ \E q \in Perms(ExpiredKeys) : SweepVisit(q)
  /\ evicted' = <<>>
  /\ UNCHANGED <<capacity, now>>

\* the callback resumes after the handlers of "expired" have settled
SweepResume ==
  /\ sweep # <<>>
  /\ SweepVisit(sweep)
  /\ evicted' = <<>>
  /\ UNCHANGED <<capacity, now>>

LruTick ==
  /\ now < MaxTime
  /\ now' = now + 1
  /\ UNCHANGED <<capacity, cache, nodes, list, sweep, recency, evicted>>

(***************************************************************************)
(* BaseCacheDriver.remember                                                *)
(***************************************************************************)
NumCallers == 2
Callers == 1..NumCallers
Tickets == 1..NumCallers
NoTicket == 0

RemRawKeys == {<<"a", ":", "b">>, <<"a", ".", "b">>, <<"c">>}
RemPrefix == <<>>
RemParseKey(key) == parseCacheKey(key, RemPrefix)
RemKeys == {RemParseKey(k) : k \in RemRawKeys}
\* the numbers 0 and 1, written as strings so that they compare with Null and Fail
RemValues == {"0", "1"}

\* JavaScript truthiness of a cached value: null and 0 are falsy
Truthy(v) == v # Null /\ v # "0"

IdleCaller == [pc |-> "idle", key |-> <<>>, cached |-> Null, ticket |-> NoTicket,
               group |-> 0]
FreeTicket == [st |-> "free", key |-> <<>>, val |-> Null]

\* the LRU driver, constructed and unused
LruIdle ==
  /\ cache = [k \in LruKeys |-> NullNode]
  /\ nodes = [n \in Nodes |-> BlankNode]
  /\ list = InitList
  /\ sweep = <<>>
  /\ recency = <<>>
  /\ evicted = <<>>

\* a remember() call is resolved once the promise it returns has settled
Settled(t) == tickets[t].st \in {"fulfilled", "rejected"}
Resolved(c) ==
  \/ callers[c].pc = "done"
  \/ callers[c].pc = "wait" /\ Settled(callers[c].ticket)

RemIdle ==
  /\ store = [k \in RemKeys |-> Null]
  /\ locks = [k \in RemKeys |-> NoTicket]
  /\ tickets = [t \in Tickets |-> FreeTicket]
  /\ callers = [c \in Callers |-> IdleCaller]
  /\ leader = [k \in RemKeys |-> 0]

\* remember() up to its first suspension: parseKey, then get(key) reads the
\* entry synchronously and suspends in `await this.emit("hit" | "miss")`
RememberCall(c, key) ==
  LET pk == RemParseKey(key)
      miss == store[pk] = Null
      open == leader[pk] # 0
      grp == IF ~miss THEN 0 ELSE IF open THEN leader[pk] ELSE c
  IN  /\ callers[c].pc = "idle"
      /\ \A b \in Callers : b < c => callers[b].pc # "idle"   \* numbered in order of issue
      /\ callers' = [callers EXCEPT ![c] =
                       [pc |-> "get", key |-> pk, cached |-> store[pk],
                        ticket |-> NoTicket, group |-> grp]]
      /\ leader' = IF miss /\ ~open THEN [leader EXCEPT ![pk] = c] ELSE leader
      /\ UNCHANGED <<store, locks, tickets>>

NextFree == CHOOSE t \in Tickets : tickets[t].st = "free" /\
                                   \A u \in Tickets : tickets[u].st = "free" => t <= u

\* remember() after `await this.get(key)`: the cached value, an existing
\* lock, or a new producer invocation whose promise becomes the lock
RememberResume(c) ==
  LET pk == callers[c].key
  IN  /\ callers[c].pc = "get"
      /\ IF Truthy(callers[c].cached)
         THEN /\ callers' = [callers EXCEPT ![c].pc = "done"]
              /\ UNCHANGED <<locks, tickets>>
         ELSE IF locks[pk] # NoTicket
         THEN /\ callers' = [callers EXCEPT ![c].pc = "wait", ![c].cached = Null,
                                            ![c].ticket = locks[pk]]
              /\ UNCHANGED <<locks, tickets>>
         ELSE /\ \E t \in Tickets : tickets[t].st = "free"
              /\ tickets' = [tickets EXCEPT ![NextFree] =
                               [st |-> "pending", key |-> pk, val |-> Null]]
              /\ locks' = [locks EXCEPT ![pk] = NextFree]
              /\ callers' = [callers EXCEPT ![c].pc = "wait", ![c].cached = Null,
                                            ![c].ticket = NextFree]
      /\ UNCHANGED <<store, leader>>

\* the leaders whose returned promise settles together with ticket t
CloseLeaders(t) ==
  [k \in RemKeys |->
     IF leader[k] # 0 /\ callers[leader[k]].pc = "wait"
        /\ callers[leader[k]].ticket = t
     THEN 0 ELSE leader[k]]

\* the producer fulfils: the then-callback starts `await this.set(key, result, ttl)`,
\* which writes the entry and suspends in emit("set")
ProducerResolve(t, v) ==
  /\ tickets[t].st = "pending"
  /\ tickets' = [tickets EXCEPT ![t].st = "saving", ![t].val = v]
  /\ store' = [store EXCEPT ![tickets[t].key] = v]
  /\ UNCHANGED <<locks, callers, leader>>

\* the mutant of SetReturn: the result is returned without deleting the lock
SetReturnKeepLock(t) ==
  /\ tickets[t].st = "saving"
  /\ tickets' = [tickets EXCEPT ![t].st = "fulfilled"]
  /\ leader' = CloseLeaders(t)
  /\ UNCHANGED <<store, locks, callers>>

\* set() returned: locks.delete(parsedKey); return result
SetReturn(t) ==
  /\ tickets[t].st = "saving"
  /\ locks' = [locks EXCEPT ![tickets[t].key] = NoTicket]
  /\ tickets' = [tickets EXCEPT ![t].st = "fulfilled"]
  /\ leader' = CloseLeaders(t)
  /\ UNCHANGED <<store, callers>>

\* the mutant of ProducerReject: the catch handler rethrows without clearing the lock
ProducerRejectKeepLock(t) ==
  /\ tickets[t].st = "pending"
  /\ tickets' = [tickets EXCEPT ![t].st = "rejected"]
  /\ leader' = CloseLeaders(t)
  /\ UNCHANGED <<store, locks, callers>>

\* the producer rejects: the catch handler deletes the lock and rethrows
ProducerReject(t) ==
  /\ tickets[t].st = "pending"
  /\ locks' = [locks EXCEPT ![tickets[t].key] = NoTicket]
  /\ tickets' = [tickets EXCEPT ![t].st = "rejected"]
  /\ leader' = CloseLeaders(t)
  /\ UNCHANGED <<store, callers>>

\* what a finished remember() call gave its caller: the cached value, or the
\* outcome of the lock promise it returned
Result(c) ==
  IF callers[c].ticket = NoTicket THEN callers[c].cached
  ELSE IF tickets[callers[c].ticket].st = "rejected" THEN Fail
  ELSE tickets[callers[c].ticket].val

\* a caller awaiting the lock promise receives its outcome
CallerSettle(c) ==
  LET t == callers[c].ticket
  IN  /\ callers[c].pc = "wait"
      /\ Settled(t)
      /\ callers' = [callers EXCEPT ![c].pc = "done"]
      /\ UNCHANGED <<store, locks, tickets, leader>>

\* remove / flush issued by other code on the same driver (their state change
\* happens before their only suspension point)
DriverRemove(key) ==
  /\ store' = [store EXCEPT ![RemParseKey(key)] = Null]
  /\ UNCHANGED <<locks, tickets, callers, leader>>

DriverFlush ==
  /\ store' = [k \in RemKeys |-> Null]
  /\ UNCHANGED <<locks, tickets, callers, leader>>

(***************************************************************************)
(* MemoryCacheDriver and MemoryExtendedCacheDriver.  `data` is a nested    *)
(* object addressed by dotted paths (get / set / unset of                  *)
(* @mongez/reinforcements): the model keeps, per canonical path, the       *)
(* CacheData stored there.  options.maxSize is 0 when not configured.  The  *)
(* values stored are primitives, which parseCachedData returns as they are. *)
(***************************************************************************)
MemRawKeys == {<<"user">>, <<"user", ":", "profile">>, <<"other", ".", "k">>}
MemNamespaces == {<<"user">>, <<"other">>, <<"user", ".", "profile">>}
\* the calls set(key, value, ttl) that are explored; ttl undefined is the default
MemSets == {<<<<"user">>, "1", Undefined>>,
            <<<<"user", ":", "profile">>, "1", 1>>,
            <<<<"user", ":", "profile">>, "2", Undefined>>,
            <<<<"other", ".", "k">>, "1", Undefined>>,
            <<<<"other", ".", "k">>, "2", Undefined>>}

MemParseKey(key) == parseCacheKey(key, memOptions.globalPrefix)
MemKeys == {MemParseKey(k) : k \in MemRawKeys}

\* no property at a path / an object that is not a CacheData (its .data,
\* .ttl and .expiresAt are undefined) / no entry in temporaryData
Absent == [data |-> "absent", ttl |-> 0, expiresAt |-> NoExpiry]
Interior == [data |-> "undefined", ttl |-> 0, expiresAt |-> NoExpiry]
NoTemp == [key |-> <<>>, expiresAt |-> NoExpiry]
NoRet == "none"

\* dotted path -> its segments; q lies at or below p
Segs(k) == SelectSeq(k, LAMBDA t : t # ".")
IsUnder(q, p) ==
  /\ Len(Segs(p)) <= Len(Segs(q))
  /\ SubSeq(Segs(q), 1, Len(Segs(p))) = Segs(p)

\* the mutant of unset: only the property itself goes, what is nested stays
unsetExact(d, p) == [q \in DOMAIN d |-> IF q = p THEN Absent ELSE d[q]]

\* unset(this.data, [p]): the property at path p goes with all that is nested
\* in it (the empty path names no property)
unset(d, p) ==
  [q \in DOMAIN d |-> IF Segs(p) # <<>> /\ IsUnder(q, p) THEN Absent ELSE d[q]]

\* set(this.data, p, e): the property at path p becomes the new object e
MemStore(d, p, e) ==
  [q \in DOMAIN d |-> IF q = p THEN e ELSE IF IsUnder(q, p) THEN Absent ELSE d[q]]

\* get(this.data, p)
MemLookup(d, p) ==
  IF p \in DOMAIN d /\ d[p] # Absent THEN d[p]
  ELSE IF \E q \in DOMAIN d : d[q] # Absent /\ IsUnder(q, p) THEN Interior
  ELSE Absent

\* getExpiresAt(ttl): Date.now() + ttl * 1000 when ttl is truthy
getExpiresAt(ttl) ==
  IF ttl = 0 THEN NoExpiry ELSE IF ttl = Infinity THEN Infinity ELSE now + ttl

prepareDataForStorage(value, ttl) ==
  [data |-> value, ttl |-> ttl, expiresAt |-> getExpiresAt(ttl)]

\* setTemporaryData(key, parsedKey, ttl); JSON.stringify quotes a string key
setTemporaryData(t, key, parsedKey, ttl) ==
  [t EXCEPT ![parsedKey] = [key |-> <<"\"">> \o key \o <<"\"">>,
                            expiresAt |-> getExpiresAt(ttl)]]

\* remove(key) up to its `await this.emit("removed")`: the effect on data and
\* on temporaryData; the key it is given is canonicalised (again)
removeData(d, key) == unset(d, MemParseKey(key))
removeTemp(t, key) ==
  [q \in DOMAIN t |-> IF q = MemParseKey(key) THEN NoTemp ELSE t[q]]

\* trackAccess(key): the key goes to the end (most recently used)
removeFromAccessOrder(order, key) == SelectSeq(order, LAMBDA q : q # key)
trackAccess(order, key) ==
  IF memOptions.maxSize = 0 THEN order
  ELSE Append(removeFromAccessOrder(order, key), key)

\* getCacheSize(): Object.keys(this.data).length, the top-level properties
getCacheSize(d) ==
  Cardinality({Head(Segs(q)) : q \in {r \in DOMAIN d : d[r] # Absent}})

\* enforceMaxSize(): cacheSize is read once, before the loop
\*   while (cacheSize > maxSize && accessOrder.length > 0) { shift, unset, delete }
RECURSIVE evictLoop(_, _)
evictLoop(cacheSize, st) ==
  IF cacheSize > memOptions.maxSize /\ st.order # <<>>
  THEN evictLoop(cacheSize,
                 [data |-> unset(st.data, Head(st.order)),
                  temp |-> [q \in DOMAIN st.temp |->
                              IF q = Head(st.order) THEN NoTemp ELSE st.temp[q]],
                  order |-> Tail(st.order)])
  ELSE st

enforceMaxSize(st) ==
  IF memOptions.maxSize = 0 THEN st ELSE evictLoop(getCacheSize(st.data), st)

\* history kept per key since its last set with a finite ttl: when the entry is
\* due, the `expired` events, the `miss` of the first get after it was due, and
\* what that get returned
NoWatch == [due |-> 0, expired |-> 0, miss |-> 0, got |-> "none"]
Unwatch(w, d0, d1) ==
  [q \in DOMAIN w |-> IF d0[q] # Absent /\ d1[q] = Absent THEN NoWatch ELSE w[q]]

\* set(key, value, ttl)
MemSet(key, value, ttlArg) ==
  LET k == MemParseKey(key)
      ttl == IF ttlArg = Undefined THEN optionsTtl(memOptions) ELSE ttlArg
      isNewKey == MemLookup(data, k) = Absent
      stored == [data |-> MemStore(data, k, prepareDataForStorage(value, ttl)),
                 temp |-> IF ttl # 0 THEN setTemporaryData(temporaryData, key, k, ttl)
                          ELSE temporaryData,
                 order |-> trackAccess(accessOrder, k)]
      st == IF isNewKey THEN enforceMaxSize(stored) ELSE stored
  IN  /\ data' = st.data
      /\ temporaryData' = st.temp
      /\ accessOrder' = st.order
      /\ watch' = [q \in DOMAIN watch |->
                     IF stored.data[q] # Absent /\ st.data[q] = Absent THEN NoWatch
                     ELSE IF q = k /\ ttl \notin {0, Infinity}
                     THEN [NoWatch EXCEPT !.due = now + ttl]
                     ELSE IF IsUnder(q, k) THEN NoWatch ELSE watch[q]]
      /\ memRet' = NoRet
      /\ memEvents' = <<>>
      /\ UNCHANGED <<memOptions, memSweep, now>>

\* get(key) of MemoryCacheDriver, and of MemoryExtendedCacheDriver, which first
\* pushes the expiry of the entry it found ttl seconds ahead, where ttl is
\* `value.ttl || this.options.ttl`.  parseCachedData removes an entry whose
\* expiresAt is below Date.now() and returns null.
MemGet(key) ==
  LET k == MemParseKey(key)
      found == MemLookup(data, k)
      ttl == IF found.ttl # 0 THEN found.ttl
             ELSE IF memOptions.ttl # Undefined THEN memOptions.ttl ELSE 0
      sliding == memOptions.name = "memoryExtended" /\ found # Absent /\ ttl # 0
      value == IF sliding THEN [found EXCEPT !.expiresAt = getExpiresAt(ttl)]
               ELSE found
      d1 == IF sliding THEN [data EXCEPT ![k] = value] ELSE data
      t1 == IF sliding THEN setTemporaryData(temporaryData, key, k, ttl)
            ELSE temporaryData
      lapsed == value.expiresAt # NoExpiry /\ value.expiresAt < now
      result == IF found = Absent \/ lapsed THEN Null ELSE value.data
      first == watch[k].due # 0 /\ watch[k].due < now /\ watch[k].got = "none"
      miss == IF memOptions.name = "memory" /\ result = Null THEN 1 ELSE 0
  IN  /\ data' = IF lapsed THEN removeData(d1, k) ELSE d1
      /\ temporaryData' = IF lapsed THEN removeTemp(t1, k) ELSE t1
      /\ accessOrder' = IF lapsed THEN removeFromAccessOrder(accessOrder, MemParseKey(k))
                        ELSE IF memOptions.name = "memory" /\ result # Null
                        THEN trackAccess(accessOrder, k)
                        ELSE accessOrder
      /\ watch' = IF first
                  THEN [watch EXCEPT ![k].got = result, ![k].miss = miss]
                  ELSE watch
      /\ memRet' = result
      /\ memEvents' = IF memOptions.name # "memory" THEN <<>>
                      ELSE IF result = Null THEN <<"miss">> ELSE <<"hit">>
      /\ UNCHANGED <<memOptions, memSweep, now>>

\* remove(key)
MemRemove(key) ==
  /\ data' = removeData(data, key)
  /\ temporaryData' = removeTemp(temporaryData, key)
  /\ accessOrder' = removeFromAccessOrder(accessOrder, MemParseKey(key))
  /\ watch' = Unwatch(watch, data, data')
  /\ memRet' = NoRet
  /\ memEvents' = <<>>
  /\ UNCHANGED <<memOptions, memSweep, now>>

\* removeNamespace(namespace)
MemRemoveNamespace(ns) ==
  /\ data' = unset(data, MemParseKey(ns))
  /\ watch' = Unwatch(watch, data, data')
  /\ memRet' = IF data' # data THEN "cleared" ELSE NoRet
  /\ memEvents' = <<>>
  /\ UNCHANGED <<memOptions, temporaryData, accessOrder, memSweep, now>>

\* flush(): removeNamespace("") under a global prefix, else this.data = {}
MemFlush ==
  /\ data' = IF memOptions.globalPrefix # <<>> THEN unset(data, MemParseKey(<<>>))
             ELSE [q \in DOMAIN data |-> Absent]
  /\ accessOrder' = IF memOptions.globalPrefix # <<>> THEN accessOrder ELSE <<>>
  /\ watch' = Unwatch(watch, data, data')
  /\ memRet' = NoRet
  /\ memEvents' = <<>>
  /\ UNCHANGED <<memOptions, temporaryData, memSweep, now>>

\* the cleanup callback (startCleanup): `now` is read once, then the keys of
\* temporaryData are visited; a key due at that time is removed (await), deleted
\* from temporaryData and reported with `expired` (await)
IdleSweep == [pc |-> "idle", todo |-> <<>>, at |-> 0, cur |-> <<>>]

RECURSIVE SkipFresh(_, _)
SkipFresh(q, at) ==
  IF q # <<>> /\ (temporaryData[Head(q)] = NoTemp \/ temporaryData[Head(q)].expiresAt > at)
  THEN SkipFresh(Tail(q), at) ELSE q

MemSweepVisit(q, at) ==
  LET rest == SkipFresh(q, at)
  IN  IF rest = <<>>
      THEN /\ memSweep' = IdleSweep
           /\ UNCHANGED <<data, temporaryData, accessOrder>>
      ELSE /\ data' = removeData(data, temporaryData[Head(rest)].key)
           /\ temporaryData' = removeTemp(temporaryData, temporaryData[Head(rest)].key)
           /\ accessOrder' = removeFromAccessOrder(accessOrder,
                                 MemParseKey(temporaryData[Head(rest)].key))
           /\ memSweep' = [pc |-> "removing", todo |-> Tail(rest), at |-> at,
                           cur |-> Head(rest)]

\* the interval fires; for..in order is insertion order, which the model does
\* not track: any order of the due keys is taken
MemSweepStart ==
  /\ memSweep.pc = "idle"
  /\ \E q \in Perms({k \in DOMAIN temporaryData :
                       /\ temporaryData[k] # NoTemp
                       /\ temporaryData[k].expiresAt <= now}) :
        q # <<>> /\ MemSweepVisit(q, now)
  /\ memRet' = NoRet
  /\ memEvents' = <<>>
  /\ UNCHANGED <<memOptions, watch, now>>

\* the callback resumes: after remove() it deletes the key from temporaryData
\* and emits `expired`; after that emit it goes on with the next key
MemSweepResume ==
  /\ \/ /\ memSweep.pc = "removing"
        /\ temporaryData' = [temporaryData EXCEPT ![memSweep.cur] = NoTemp]
        /\ watch' = IF watch[memSweep.cur].due # 0
                    THEN [watch EXCEPT ![memSweep.cur].expired = @ + 1]
                    ELSE watch
        /\ memSweep' = [memSweep EXCEPT !.pc = "emitting"]
        /\ UNCHANGED <<data, accessOrder>>
     \/ /\ memSweep.pc = "emitting"
        /\ MemSweepVisit(memSweep.todo, memSweep.at)
        /\ UNCHANGED watch
  /\ memRet' = NoRet
  /\ memEvents' = <<>>
  /\ UNCHANGED <<memOptions, now>>

MemTick ==
  /\ now < MaxTime
  /\ now' = now + 1
  /\ memRet' = NoRet
  /\ memEvents' = <<>>
  /\ UNCHANGED <<memOptions, data, temporaryData, accessOrder, memSweep, watch>>

(***************************************************************************)
(* TaggedCache: a decorator over a driver.  The wrapped driver is taken by *)
(* its contract: a map from canonical keys to values in which set, get and *)
(* remove canonicalise the key they are given with the driver's global     *)
(* prefix (a provider function that returns "p" acts as the literal "p").  *)
(* The tag index lives in the same map under the keys `cache:tags:<tag>`.  *)
(* The operations of the decorator run one at a time.  The wrapped driver  *)
(* is the memory driver (no maxSize) or the LRU driver with the capacity   *)
(* TagCapacity, whose entries are kept with their order of last use.       *)
(***************************************************************************)
TagCapacity == 2
\* the wrapped drivers that are explored
TagDrivers == {[globalPrefix |-> <<>>, name |-> "memory"],
               [globalPrefix |-> <<"p">>, name |-> "memory"],
               [globalPrefix |-> <<>>, name |-> "lru"]}
Tags == {"A", "B"}
TagLists == {<<"A">>, <<"B">>, <<"A", "B">>}
TagRawKeys == {<<"k1">>, <<"k2">>, <<"p", ".", "k1">>}
TagValues == {"1", "2"}

TagParseKey(key) == parseCacheKey(key, tagOptions.globalPrefix)
tagKey(tag) == <<"cache", ":", "tags", ":", tag>>

\* every canonical key the calls below can address
WrappedKeys ==
  {TagParseKey(k) : k \in TagRawKeys} \cup
  {TagParseKey(TagParseKey(k)) : k \in TagRawKeys} \cup
  {TagParseKey(tagKey(t)) : t \in Tags}

Range(q) == {q[i] : i \in DOMAIN q}

\* a stored value: a primitive (val), or an array of keys (val = "list", keys);
\* get returns null for a key that is not stored
NoEntry == [val |-> Null, keys |-> <<>>]

\* driver.set: the entry becomes the most recently used one; on the LRU driver
\* the least recently used entry goes when the size exceeds the capacity
drvSet(m, key, value) ==
  LET k == TagParseKey(key)
      lru == tagOptions.name = "lru"
      m1 == [map |-> [m.map EXCEPT ![k] = value],
             order |-> IF lru THEN Touch(m.order, k) ELSE m.order]
      victim == m1.order[Len(m1.order)]
  IN  IF lru /\ Len(m1.order) > TagCapacity
      THEN [map |-> [m1.map EXCEPT ![victim] = NoEntry],
            order |-> Forget(m1.order, victim)]
      ELSE m1

\* driver.get: the value it returns, and what it does to the LRU order
drvGet(m, key) == m.map[TagParseKey(key)]
drvTouch(m, key) ==
  IF tagOptions.name = "lru" /\ drvGet(m, key) # NoEntry
  THEN [m EXCEPT !.order = Touch(@, TagParseKey(key))] ELSE m

\* driver.remove
drvRemove(m, key) ==
  [map |-> [m.map EXCEPT ![TagParseKey(key)] = NoEntry],
   order |-> Forget(m.order, TagParseKey(key))]

\* (await this.driver.get(tagKey)) || []
listOf(m, tag) == drvGet(m, tagKey(tag)).keys

RECURSIVE storeTaggedKey(_, _, _)
storeTaggedKey(m, tags, key) ==
  IF tags = <<>> THEN m
  ELSE storeTaggedKey(IF key \in Range(listOf(m, Head(tags)))
                      THEN drvTouch(m, tagKey(Head(tags)))
                      ELSE drvSet(m, tagKey(Head(tags)),
                                  [val |-> "list",
                                   keys |-> Append(listOf(m, Head(tags)), key)]),
                      Tail(tags), key)

\* the Set of keys collected over the bound tags, in insertion order
RECURSIVE getTaggedKeys(_, _)
getTaggedKeys(m, tags) ==
  IF tags = <<>> THEN <<>>
  ELSE LET rest == getTaggedKeys(m, SubSeq(tags, 1, Len(tags) - 1))
       IN  rest \o SelectSeq(listOf(m, tags[Len(tags)]),
                             LAMBDA k : k \notin Range(rest))

\* for (const key of keys) await this.driver.remove(key)
RECURSIVE removeEach(_, _)
removeEach(m, keys) ==
  IF keys = <<>> THEN m ELSE removeEach(drvRemove(m, Head(keys)), Tail(keys))

\* remove(): the key goes from the list of every bound tag
RECURSIVE dropFromTags(_, _, _)
dropFromTags(m, tags, key) ==
  IF tags = <<>> THEN m
  ELSE dropFromTags(drvSet(m, tagKey(Head(tags)),
                           [val |-> "list",
                            keys |-> SelectSeq(listOf(m, Head(tags)),
                                               LAMBDA k : k # key)]),
                    Tail(tags), key)

\* tags(...).set(key, value, ttl)
TagSet(tags, key, value) ==
  /\ wrapped' = storeTaggedKey(drvSet(wrapped, key, [val |-> value, keys |-> <<>>]),
                             tags, TagParseKey(key))
  /\ tagged' = [t \in Tags |-> IF t \in Range(tags) THEN tagged[t] \cup {key}
                               ELSE tagged[t]]
  /\ UNCHANGED <<tagOptions, tagCalls, produced>>

\* tags(...).remove(key)
TagRemove(tags, key) ==
  /\ wrapped' = dropFromTags(drvRemove(wrapped, key), tags, TagParseKey(key))
  /\ tagged' = [t \in Tags |-> IF t \in Range(tags) THEN tagged[t] \ {key}
                               ELSE tagged[t]]
  /\ UNCHANGED <<tagOptions, tagCalls, produced>>

\* driver.set(key, value) by other code, without tags
WrappedSet(key, value) ==
  /\ wrapped' = drvSet(wrapped, key, [val |-> value, keys |-> <<>>])
  /\ UNCHANGED <<tagOptions, tagged, tagCalls, produced>>

\* the entry of a key lapses: the driver removes it (parseCachedData, the sweep)
WrappedExpire(key) ==
  /\ drvGet(wrapped, key) # NoEntry
  /\ wrapped' = drvRemove(wrapped, key)
  /\ UNCHANGED <<tagOptions, tagged, tagCalls, produced>>

\* tags(...).invalidate(); the gets of the tag lists touch entries that the
\* same call removes
TagInvalidate(tags) ==
  /\ wrapped' = removeEach(removeEach(wrapped, getTaggedKeys(wrapped, tags)),
                           [i \in DOMAIN tags |-> tagKey(tags[i])])
  /\ tagged' = [t \in Tags |-> IF t \in Range(tags) THEN {} ELSE tagged[t]]
  /\ UNCHANGED <<tagOptions, tagCalls, produced>>

(***************************************************************************)
(* Tagged calls that overlap.  A call of TaggedCache.set or .remember is   *)
(* suspended at each of its awaits; the driver's get reads, and its set    *)
(* stores, when it is called, and the caller resumes in a later step.  The *)
(* driver's get hands out a copy of the stored list.                       *)
(***************************************************************************)
NumTagCallers == 2
TagCallers == 1..NumTagCallers
IdleTagCall == [pc |-> "idle", op |-> "none", key |-> <<>>, value |-> Null,
                tags |-> <<>>, rest |-> <<>>, keys |-> <<>>, read |-> Null,
                with |-> {}, ticket |-> 0, result |-> Null]

\* what the producer's n-th invocation resolves with
resultOf(n) == IF n = 1 THEN "1" ELSE "2"

\* tags(T).set(key, value): parseKey, driver.set, suspended at its await
TaggedSetCall(c, T, key, value) ==
  /\ tagCalls[c].pc = "idle"
  /\ wrapped' = drvSet(wrapped, key, [val |-> value, keys |-> <<>>])
  /\ tagCalls' = [tagCalls EXCEPT ![c] =
                    [IdleTagCall EXCEPT !.pc = "awaitSet", !.op = "set", !.key = key,
                                        !.value = value, !.tags = T, !.rest = T]]
  /\ UNCHANGED <<tagOptions, tagged, produced>>

\* tags(T).remember(key, ttl, callback): `await this.get(key)`; the calls on
\* the same key that have not returned yet are the ones this call overlaps
TaggedRememberCall(c, T, key) ==
  /\ tagCalls[c].pc = "idle"
  /\ wrapped' = drvTouch(wrapped, key)
  /\ tagCalls' = [tagCalls EXCEPT ![c] =
                    [IdleTagCall EXCEPT
                       !.pc = "awaitValue", !.op = "remember", !.key = key, !.tags = T,
                       !.read = drvGet(wrapped, key).val,
                       !.with = {o \in TagCallers \ {c} :
                                   /\ tagCalls[o].op = "remember"
                                   /\ tagCalls[o].key = key
                                   /\ tagCalls[o].pc # "done"}]]
  /\ UNCHANGED <<tagOptions, tagged, produced>>

\* remember after `await this.get(key)`: a value is returned, a miss calls
\* the producer
TaggedRememberResume(c) ==
  LET call == tagCalls[c]
  IN  /\ call.pc = "awaitValue"
      /\ IF call.read # Null
         THEN /\ tagCalls' = [tagCalls EXCEPT ![c].pc = "done", ![c].result = call.read]
              /\ UNCHANGED produced
         ELSE /\ produced < NumTagCallers
              /\ produced' = produced + 1
              /\ tagCalls' = [tagCalls EXCEPT ![c].pc = "awaitCallback",
                                              ![c].ticket = produced + 1]
      /\ UNCHANGED <<tagOptions, wrapped, tagged>>

\* the producer has resolved: `await this.set(key, result, ttl)`
TaggedRememberStore(c) ==
  LET call == tagCalls[c]
      result == resultOf(call.ticket)
  IN  /\ call.pc = "awaitCallback"
      /\ wrapped' = drvSet(wrapped, call.key, [val |-> result, keys |-> <<>>])
      /\ tagCalls' = [tagCalls EXCEPT ![c].pc = "awaitSet", ![c].value = result,
                                      ![c].result = result, ![c].rest = call.tags]
      /\ UNCHANGED <<tagOptions, tagged, produced>>

\* storeTaggedKey after a driver.set has settled: the next tag's list is
\* fetched, or the call returns
StoreTaggedKeyGet(c) ==
  LET call == tagCalls[c]
  IN  /\ call.pc = "awaitSet"
      /\ IF call.rest = <<>>
         THEN /\ tagCalls' = [tagCalls EXCEPT ![c].pc = "done", ![c].result = call.value]
              /\ UNCHANGED wrapped
         ELSE /\ wrapped' = drvTouch(wrapped, tagKey(Head(call.rest)))
              /\ tagCalls' = [tagCalls EXCEPT ![c].pc = "awaitKeys",
                                ![c].keys = listOf(wrapped, Head(call.rest))]
      /\ UNCHANGED <<tagOptions, tagged, produced>>

\* storeTaggedKey after `await this.driver.get(tagKey)`: the key is pushed
\* onto the list that was read and the list is stored, unless it is in it
StoreTaggedKeyPush(c) ==
  LET call == tagCalls[c]
      key == TagParseKey(call.key)
  IN  /\ call.pc = "awaitKeys"
      /\ wrapped' = IF key \in Range(call.keys) THEN wrapped
                    ELSE drvSet(wrapped, tagKey(Head(call.rest)),
                                [val |-> "list", keys |-> Append(call.keys, key)])
      /\ tagCalls' = [tagCalls EXCEPT ![c].pc = "awaitSet", ![c].rest = Tail(call.rest),
                                      ![c].keys = <<>>]
      /\ UNCHANGED <<tagOptions, tagged, produced>>

(***************************************************************************)
(* Values as object graphs: what set stores and what get hands out on the  *)
(* memory and LRU drivers.  An object has a primitive field x and a field  *)
(* child (another object or none).  The caller owns the objects o1 (whose  *)
(* child is o2) and o2; set stores the value it is given as it is          *)
(* (prepareDataForStorage: { data }, CacheNode.value), get clones.         *)
(***************************************************************************)
Refs == {"o1", "o2", "o3", "o4"}
NoRef == "noref"
FreeObj == [x |-> "free", child |-> NoRef]
Prims == {"1", "2"}
CopyRawKeys == {<<"k1">>, <<"k2">>}
CopyParseKey(key) == parseCacheKey(key, <<>>)

\* the objects reachable from a value
RECURSIVE Reach(_, _)
Reach(h, v) == IF v \notin Refs THEN {} ELSE {v} \cup Reach(h, h[v].child)

\* objects no reference reaches are garbage
Collect(h, roots) ==
  [r \in Refs |-> IF r \in UNION {Reach(h, v) : v \in roots} THEN h[r] ELSE FreeObj]

\* the mutant of structuredClone: a copy of the top object only
shallowClone(h, r) ==
  LET f == CHOOSE o \in Refs : h[o] = FreeObj
  IN  [heap |-> [h EXCEPT ![f] = h[r]], root |-> f]

\* structuredClone(value): a new object per object reachable from value
RECURSIVE structuredClone(_, _)
structuredClone(h, r) ==
  LET f == CHOOSE o \in Refs : h[o] = FreeObj
      sub == structuredClone([h EXCEPT ![f] = [x |-> h[r].x, child |-> NoRef]],
                             h[r].child)
  IN  IF h[r].child = NoRef
      THEN [heap |-> [h EXCEPT ![f] = [x |-> h[r].x, child |-> NoRef]], root |-> f]
      ELSE [heap |-> [sub.heap EXCEPT ![f].child = sub.root], root |-> f]

\* parseCachedData, and the same lines of LRUMemoryCacheDriver.get: null and
\* primitives are handed out as they are, anything else is cloned
parseCachedData(h, v) ==
  IF v = Null \/ v \in Prims THEN [heap |-> h, root |-> v] ELSE structuredClone(h, v)
lruRead(h, v) ==
  IF v = Null \/ v \in Prims THEN [heap |-> h, root |-> v] ELSE structuredClone(h, v)

\* set(key, value)
CopySet(key, value) ==
  /\ entries' = [entries EXCEPT ![CopyParseKey(key)] = value]
  /\ UNCHANGED <<copyDriver, heap, copyRet>>

\* get(key); the value the previous get returned is dropped by the caller
CopyGet(key) ==
  LET h == Collect(heap, {"o1", "o2"})
      out == IF copyDriver = "lru" THEN lruRead(h, entries[CopyParseKey(key)])
             ELSE parseCachedData(h, entries[CopyParseKey(key)])
  IN  /\ heap' = out.heap
      /\ copyRet' = out.root
      /\ UNCHANGED <<copyDriver, entries>>

\* the caller writes a field of an object it holds: one it built or one it got
CopyMutate(r, x) ==
  /\ r \in {"o1", "o2"} \cup Reach(heap, copyRet)
  /\ heap[r].x # x
  /\ heap' = [heap EXCEPT ![r].x = x]
  /\ UNCHANGED <<copyDriver, entries, copyRet>>

(***************************************************************************)
(* BaseCacheDriver.increment / decrement (TaggedCache.increment has the    *)
(* same lines over its own get and set).  A JavaScript value is a record   *)
(* of its type, its number and its text.  The driver underneath is an      *)
(* in-process store whose get returns what set stored.  increment(key,     *)
(* value) as one step is a call that no other call overlaps; IncStart and  *)
(* IncFinish are the two halves of a call, before and after its            *)
(* `await this.get(key)`, between which other calls may run.               *)
(***************************************************************************)
IncMax == 2
NumIncs == 2
IncCallers == 1..NumIncs
JsNull == [type |-> "null", num |-> 0, str |-> ""]
JsNum(n) == [type |-> "number", num |-> n, str |-> ""]
JsStr(s) == [type |-> "string", num |-> 0, str |-> s]
JsBool(b) == [type |-> "boolean", num |-> 0, str |-> b]
JsObj == [type |-> "object", num |-> 0, str |-> "{}"]
JsValues ==
  {JsNum(n) : n \in (0 - IncMax)..IncMax} \cup {JsStr(""), JsStr("text")} \cup
  {JsBool("true"), JsBool("false")} \cup {JsObj}

IncRawKeys == {<<"k">>, <<"views", ":", "1">>}
IncParseKey(key) == parseCacheKey(key, <<>>)
IncDeltas == {1, 2}

\* a || 0: the left operand unless it is falsy (null, 0, "", false)
Falsy(v) ==
  \/ v.type = "null"
  \/ v.type = "number" /\ v.num = 0
  \/ v.type = "string" /\ v.str = ""
  \/ v.type = "boolean" /\ v.str = "false"
orZero(v) == IF Falsy(v) THEN JsNum(0) ELSE v

NoIncRet == [error |-> "none", value |-> 0]

IdleInc == [pc |-> "idle", key |-> <<>>, delta |-> 0, current |-> JsNull,
            overlapped |-> FALSE]

\* set(key, value) of the driver underneath, while no increment is under way
IncSet(key, v) ==
  /\ \A c \in IncCallers : incCalls[c].pc # "read"
  /\ counters' = [counters EXCEPT ![IncParseKey(key)] = v]
  /\ incRet' = NoIncRet
  /\ UNCHANGED incCalls

\* increment(key, value): current = (await this.get(key)) || 0; throws when
\* typeof current is not "number", else stores and returns current + value
increment(key, value) ==
  LET current == orZero(counters[IncParseKey(key)])
  IN  /\ current.type = "number" => current.num + value \in (0 - IncMax)..IncMax
      /\ IF current.type # "number"
         THEN /\ incRet' = [error |-> "TypeMismatch", value |-> 0]
              /\ UNCHANGED counters
         ELSE /\ counters' = [counters EXCEPT ![IncParseKey(key)] =
                                JsNum(current.num + value)]
              /\ incRet' = [error |-> "none", value |-> current.num + value]
      /\ UNCHANGED incCalls

\* decrement(key, value): this.increment(key, -value)
decrement(key, value) == increment(key, 0 - value)

\* the mutant of newValue: the value read is written back
newValueKeep(current, value) == current.num

\* const newValue = current + value
newValue(current, value) == current.num + value

\* increment(key, value) up to its first suspension: get reads the store when
\* it is called, and the call waits for the promise of get to settle.  A call
\* overlaps the calls on its key that are suspended when it starts.
IncStart(c, key, value) ==
  LET k == IncParseKey(key)
      current == orZero(counters[k])
      others == {o \in IncCallers \ {c} : incCalls[o].pc = "read" /\ incCalls[o].key = k}
  IN  /\ incCalls[c].pc # "read"
      /\ current.type = "number" => current.num + value \in (0 - IncMax)..IncMax
      /\ incCalls' = [o \in IncCallers |->
                        IF o = c THEN [pc |-> "read", key |-> k, delta |-> value,
                                       current |-> current, overlapped |-> others # {}]
                        ELSE IF o \in others THEN [incCalls[o] EXCEPT !.overlapped = TRUE]
                        ELSE incCalls[o]]
      /\ incRet' = NoIncRet
      /\ UNCHANGED counters

\* the call resumes with the value it read: the type test, then
\* `await this.set(key, current + value)`, whose store happens at once
IncFinish(c) ==
  LET call == incCalls[c]
      current == call.current
  IN  /\ call.pc = "read"
      /\ IF current.type # "number"
         THEN /\ incRet' = [error |-> "TypeMismatch", value |-> 0]
              /\ UNCHANGED counters
         ELSE /\ counters' = [counters EXCEPT ![call.key] =
                                JsNum(newValue(current, call.delta))]
              /\ incRet' = [error |-> "none", value |-> newValue(current, call.delta)]
      /\ incCalls' = [incCalls EXCEPT ![c].pc = "done"]

(***************************************************************************)
(* CacheManager: the configured driver classes, the loaded drivers, the    *)
(* active driver and the global listeners.  load() suspends in             *)
(* `await driverInstance.connect()`; use(name), driver(name) and init()    *)
(* suspend in their await of load().  Driver 0 is a driver object built by *)
(* the application and handed to use(); the others are built by load().    *)
(***************************************************************************)
MaxInst == 2
NumCalls == 2
MgrCalls == 1..NumCalls
MgrInsts == 0..MaxInst
NoInst == 0 - 1
\* configurations.drivers has "memory" and "lru", and "file" without the
\* `directory` option, which FileCacheDriver.setOptions rejects; "redis" is not
\* declared; configurations.default is "memory"
MgrNames == {"memory", "lru"}
MgrAskedNames == MgrNames \cup {"redis", "file"}
MgrDefault == "memory"
\* the (event, handler) pairs that on() is called with
MgrHandlers == {<<"hit", "h1">>, <<"set", "h2">>}
\* the operations of the manager that go to the active driver
ForwardOps == {"get", "set", "remove", "removeNamespace", "flush", "connect",
               "disconnect", "has", "remember", "pull", "forever", "increment",
               "decrement", "many", "setMany", "setNX", "tags", "parseKey",
               "setOptions"}

FreeInst == [name |-> "free", listeners |-> {}]
IdleCall == [op |-> "none", pc |-> "idle", name |-> "none", inst |-> NoInst]

\* attachGlobalListeners(driver): driver.on(event, handler) for every global one
attachGlobalListeners(d, i) == [d EXCEPT ![i].listeners = @ \cup globalEventListeners]

\* the mutant of MgrOn: the handler is attached to the active driver only
MgrOnActiveOnly(h) ==
  /\ globalEventListeners' = globalEventListeners \cup {h}
  /\ drivers' = [i \in MgrInsts |->
                   IF i = currentDriver
                   THEN [drivers[i] EXCEPT !.listeners = @ \cup {h}] ELSE drivers[i]]
  /\ mgrRet' = "none"
  /\ UNCHANGED <<loadedDrivers, currentDriver, calls>>

\* on(event, handler)
MgrOn(h) ==
  /\ globalEventListeners' = globalEventListeners \cup {h}
  /\ drivers' = [i \in MgrInsts |->
                   IF i = currentDriver \/ \E n \in MgrNames : loadedDrivers[n] = i
                   THEN [drivers[i] EXCEPT !.listeners = @ \cup {h}] ELSE drivers[i]]
  /\ mgrRet' = "none"
  /\ UNCHANGED <<loadedDrivers, currentDriver, calls>>

\* load(name), and the calls that reach it: driver(name), use(name), init(),
\* up to the first suspension.  A loaded driver is returned; an undeclared
\* name throws; else a driver is constructed, given its options, and connect()
\* is called and awaited.  A call keeps how it goes on after load(): "load"
\* (load, driver: the driver is returned) or "use" (use, init: it is made active).
LoadCall(c, op, name) ==
  LET f == CHOOSE i \in 1..MaxInst : drivers[i] = FreeInst /\
                                     \A j \in 1..MaxInst : drivers[j] = FreeInst => i <= j
      kind == IF op \in {"use", "init"} THEN "use" ELSE "load"
      after == IF kind = "use" THEN "loaded" ELSE "done"
  IN  /\ calls[c].pc \in {"idle", "done", "failed"}
      /\ op = "init" => name = MgrDefault
      /\ IF name \in MgrNames /\ loadedDrivers[name] # NoInst
         THEN /\ calls' = [calls EXCEPT ![c] = [op |-> kind, pc |-> after, name |-> name,
                                                 inst |-> loadedDrivers[name]]]
              /\ UNCHANGED drivers
         ELSE IF name \notin MgrNames
         THEN /\ calls' = [calls EXCEPT ![c] = [op |-> kind, pc |-> "failed",
                                                 name |-> name, inst |-> NoInst]]
              /\ UNCHANGED drivers
         ELSE /\ \E i \in 1..MaxInst : drivers[i] = FreeInst
              /\ drivers' = [drivers EXCEPT ![f] = [name |-> name, listeners |-> {}]]
              /\ calls' = [calls EXCEPT ![c] = [op |-> kind, pc |-> "connecting",
                                                 name |-> name, inst |-> f]]
      /\ mgrRet' = "none"
      /\ UNCHANGED <<loadedDrivers, currentDriver, globalEventListeners>>

\* load() after `await driverInstance.connect()`: the global listeners are
\* attached, the driver is recorded under its name and returned
LoadResume(c) ==
  /\ calls[c].pc = "connecting"
  /\ drivers' = attachGlobalListeners(drivers, calls[c].inst)
  /\ loadedDrivers' = [loadedDrivers EXCEPT ![calls[c].name] = calls[c].inst]
  /\ calls' = [calls EXCEPT ![c].pc =
                 IF calls[c].op = "use" THEN "loaded" ELSE "done"]
  /\ mgrRet' = "none"
  /\ UNCHANGED <<currentDriver, globalEventListeners>>

\* `await driverInstance.connect()` rejects: load() rejects with it, and so do
\* the driver(), use() or init() awaiting it; the driver object is dropped
LoadReject(c) ==
  /\ calls[c].pc = "connecting"
  /\ drivers' = [drivers EXCEPT ![calls[c].inst] = FreeInst]
  /\ calls' = [calls EXCEPT ![c].pc = "failed", ![c].inst = NoInst]
  /\ mgrRet' = "none"
  /\ UNCHANGED <<loadedDrivers, currentDriver, globalEventListeners>>

\* use(name) / init() after the driver has arrived: attach, make it active
UseResume(c) ==
  /\ calls[c].pc = "loaded"
  /\ drivers' = attachGlobalListeners(drivers, calls[c].inst)
  /\ currentDriver' = calls[c].inst
  /\ calls' = [calls EXCEPT ![c].pc = "done"]
  /\ mgrRet' = "none"
  /\ UNCHANGED <<loadedDrivers, globalEventListeners>>

\* use(driver) with a driver object
UseDriver ==
  /\ drivers' = attachGlobalListeners(drivers, 0)
  /\ currentDriver' = 0
  /\ mgrRet' = "none"
  /\ UNCHANGED <<loadedDrivers, globalEventListeners, calls>>

\* ensureDriverInitialized(), then the call on this.currentDriver;
\* disconnect() tests this.currentDriver itself and does nothing without one
Forward(op) ==
  /\ mgrRet' = IF currentDriver # NoInst THEN "forwarded"
               ELSE IF op = "disconnect" THEN "resolved"
               ELSE "NotInitialized"
  /\ UNCHANGED <<drivers, loadedDrivers, currentDriver, globalEventListeners, calls>>

(***************************************************************************)
(* BaseCacheDriver.emit.  The handlers registered for one event are kept   *)
(* in registration order (a Set); a handler is given by what a call of it  *)
(* does: it returns a plain value, throws, or returns a promise that is    *)
(* later fulfilled or rejected.  An operation of a driver does its work,   *)
(* then awaits emit and returns.                                           *)
(***************************************************************************)
MaxHandlers == 3
HandlerKinds == {"returns", "throws", "fulfils", "rejects"}
EmitOps == {"get", "set", "remove", "flush", "connect", "disconnect"}
NoEmit == [invoked |-> {}, promises |-> {}, logged |-> 0, outcome |-> "none"]

\* the mutant of emitLoop: no try / catch around the call of a handler, the
\* first handler that throws ends the loop and the exception leaves emit
RECURSIVE emitLoopNoCatch(_, _, _)
emitLoopNoCatch(hs, i, acc) ==
  IF i > Len(hs) THEN [acc EXCEPT !.outcome = "returned"]
  ELSE IF hs[i] = "throws"
  THEN [acc EXCEPT !.invoked = @ \cup {i}, !.outcome = "thrown"]
  ELSE emitLoopNoCatch(hs, i + 1,
         [acc EXCEPT !.invoked = @ \cup {i},
                     !.promises = IF hs[i] \in {"fulfils", "rejects"}
                                  THEN @ \cup {i} ELSE @])

\* for (const handler of handlers) { try { result = handler(eventData); if
\* (result instanceof Promise) promises.push(result) } catch { logError } }
RECURSIVE emitLoop(_, _, _)
emitLoop(hs, i, acc) ==
  IF i > Len(hs) THEN [acc EXCEPT !.outcome = "returned"]
  ELSE IF hs[i] = "throws"
  THEN emitLoop(hs, i + 1, [acc EXCEPT !.invoked = @ \cup {i}, !.logged = @ + 1])
  ELSE emitLoop(hs, i + 1,
         [acc EXCEPT !.invoked = @ \cup {i},
                     !.promises = IF hs[i] \in {"fulfils", "rejects"}
                                  THEN @ \cup {i} ELSE @])

\* on(event, handler)
EmitOn(kind) ==
  /\ emitOp.pc \in {"idle", "resolved", "rejected"}
  /\ Len(eventListeners) < MaxHandlers
  /\ eventListeners' = Append(eventListeners, kind)
  /\ UNCHANGED <<emitted, emitOp, onceHandlers, onceEmits>>

\* an operation reaches its `await this.emit(event, data)`: emit returns at
\* once without handlers, else runs the loop and, when handlers returned
\* promises, awaits Promise.allSettled of them
EmitCall(op) ==
  LET run == emitLoop(eventListeners, 1, NoEmit)
  IN  /\ emitOp.pc \in {"idle", "resolved", "rejected"}
      /\ emitted' = IF eventListeners = <<>> THEN [NoEmit EXCEPT !.outcome = "returned"]
                    ELSE run
      /\ emitOp' = [op |-> op,
                    pc |-> IF emitted'.outcome = "thrown" THEN "rejected"
                           ELSE IF emitted'.promises # {} THEN "settling"
                           ELSE "emitted"]
      /\ UNCHANGED <<eventListeners, onceHandlers, onceEmits>>

\* Promise.allSettled fulfils once every promise has settled, however; emit
\* returns, and then the operation
EmitSettle ==
  /\ emitOp.pc \in {"settling", "emitted"}
  /\ emitOp' = [emitOp EXCEPT !.pc = IF emitOp.pc = "settling" THEN "emitted"
                                     ELSE "resolved"]
  /\ UNCHANGED <<eventListeners, emitted, onceHandlers, onceEmits>>

(***************************************************************************)
(* once(event, handler) registers `async (data) => { await handler(data);  *)
(* this.off(event, onceHandler) }`.  An emission calls every registered    *)
(* handler in its loop; the wrapper calls the handler at once and is       *)
(* suspended at its await, and removes itself when it resumes, which it    *)
(* does only when the handler did not fail.  Emissions of several          *)
(* operations under way (the gets of many()) may start before a wrapper    *)
(* has resumed.                                                            *)
(***************************************************************************)
MaxEmits == 3
OnceHandlers == {"h1", "h2"}
NoOnce == [registered |-> FALSE, kind |-> "none", invoked |-> 0, pending |-> 0]

\* once(event, handler): this.on(event, onceHandler)
Once(h, kind) ==
  /\ onceHandlers[h].kind = "none"
  /\ onceHandlers' = [onceHandlers EXCEPT ![h] = [NoOnce EXCEPT !.registered = TRUE,
                                                                !.kind = kind]]
  /\ UNCHANGED <<eventListeners, emitted, emitOp, onceEmits>>

\* emit(event): the loop calls every registered wrapper, which calls its
\* handler; a wrapper whose handler neither threw nor returned a promise that
\* rejects is suspended with its off() still to come
OnceEmit ==
  /\ onceEmits < MaxEmits
  /\ \E h \in OnceHandlers : onceHandlers[h].registered
  /\ onceEmits' = onceEmits + 1
  /\ onceHandlers' = [h \in OnceHandlers |->
        IF onceHandlers[h].registered
        THEN [onceHandlers[h] EXCEPT
                !.invoked = @ + 1,
                !.pending = IF onceHandlers[h].kind \in {"returns", "fulfils"}
                            THEN @ + 1 ELSE @]
        ELSE onceHandlers[h]]
  /\ UNCHANGED <<eventListeners, emitted, emitOp>>

\* a wrapper resumes after `await handler(data)`: this.off(event, onceHandler)
OnceOff(h) ==
  /\ onceHandlers[h].pending > 0
  /\ onceHandlers' = [onceHandlers EXCEPT ![h].registered = FALSE, ![h].pending = @ - 1]
  /\ UNCHANGED <<eventListeners, emitted, emitOp, onceEmits>>

(***************************************************************************)
(* set(key, value, ttl) of the drivers, and the expiry the entry gets.     *)
(* An entry is the CacheData record of the memory and file drivers, the    *)
(* node of the LRU driver, or the key of the Redis server with the         *)
(* deadline its EX option gives it.                                        *)
(***************************************************************************)
TtlDrivers == {"memory", "lru", "file", "redis"}
\* options.ttl: left out, 0, a number of seconds, or Infinity
TtlDefaults == {Undefined, 0, 1, 2, Infinity}
\* the ttl argument of set: left out, 0, a number of seconds, or Infinity
\* (forever(key, value) is set(key, value, Infinity))
TtlArgs == {Undefined, 0, 1, 2, Infinity}
TtlRawKeys == {<<"a">>, <<"b", ".", "c">>}
TtlValues == {"1"}
TtlParseKey(key) == parseCacheKey(key, <<>>)
TtlKeys == {TtlParseKey(k) : k \in TtlRawKeys}
NoTtlSet == [ttl |-> Undefined, at |-> 0]
NoTtlRet == [key |-> <<>>, value |-> Null]

\* MemoryCacheDriver.set: the default is taken when the argument is undefined
memorySetEntry(o, value, ttlArg) ==
  LET ttl == IF ttlArg = Undefined THEN optionsTtl(o) ELSE ttlArg
  IN  prepareDataForStorage(value, ttl)

\* LRUMemoryCacheDriver.set: new CacheNode(key, value, ttl); a node keeps
\* expiresAt only
lruSetEntry(o, value, ttlArg) ==
  LET ttl == IF ttlArg = Undefined THEN optionsTtl(o) ELSE ttlArg
  IN  [data |-> value, ttl |-> 0, expiresAt |-> ExpiresAt(ttl, now)]

\* FileCacheDriver.set: prepareDataForStorage(value, ttl) with the argument as
\* it came; undefined is falsy, so the record gets neither ttl nor expiresAt
fileSetEntry(o, value, ttlArg) ==
  IF ttlArg = Undefined
  THEN [data |-> value, ttl |-> 0, expiresAt |-> NoExpiry]
  ELSE prepareDataForStorage(value, ttlArg)

\* RedisCacheDriver.set: client.set(key, json, { EX: ttl }) when ttl is truthy
\* and finite, client.set(key, json) otherwise; the server drops the key ttl
\* seconds later
redisSetEntry(o, value, ttlArg) ==
  LET ttl == IF ttlArg = Undefined THEN optionsTtl(o) ELSE ttlArg
  IN  [data |-> value, ttl |-> 0,
       expiresAt |-> IF ttl # 0 /\ ttl # Infinity THEN now + ttl ELSE NoExpiry]

setEntry(o, value, ttlArg) ==
  CASE o.name = "memory" -> memorySetEntry(o, value, ttlArg)
    [] o.name = "lru"    -> lruSetEntry(o, value, ttlArg)
    [] o.name = "file"   -> fileSetEntry(o, value, ttlArg)
    [] o.name = "redis"  -> redisSetEntry(o, value, ttlArg)

\* set(key, value, ttl)
TtlSet(key, value, ttlArg) ==
  LET k == TtlParseKey(key)
  IN  /\ ttlEntries' = [ttlEntries EXCEPT ![k] = setEntry(ttlOptions, value, ttlArg)]
      /\ ttlLast' = [ttlLast EXCEPT ![k] = [ttl |-> ttlArg, at |-> now]]
      /\ ttlRet' = NoTtlRet
      /\ UNCHANGED <<ttlOptions, now>>

\* the entry is past its expiry: expiresAt < Date.now() in parseCachedData and
\* CacheNode.isExpired; the Redis server has dropped the key once ttl seconds
\* have passed
ttlLapsed(o, e) ==
  /\ e.expiresAt # NoExpiry
  /\ IF o.name = "redis" THEN e.expiresAt <= now ELSE e.expiresAt < now

\* get(key): null and the entry removed when there is none or it has expired
TtlGet(key) ==
  LET k == TtlParseKey(key)
      e == ttlEntries[k]
      miss == e = Absent \/ ttlLapsed(ttlOptions, e)
  IN  /\ ttlEntries' = IF miss THEN [ttlEntries EXCEPT ![k] = Absent] ELSE ttlEntries
      /\ ttlRet' = [key |-> k, value |-> IF miss THEN Null ELSE e.data]
      /\ UNCHANGED <<ttlOptions, ttlLast, now>>

TtlTick ==
  /\ now < MaxTime
  /\ now' = now + 1
  /\ UNCHANGED ttlVars

(***************************************************************************)
(* The cleanup timer of MemoryCacheDriver and LRUMemoryCacheDriver:        *)
(* startCleanup (called by the constructor), the interval's callback, and  *)
(* disconnect.  A timer is the object setInterval returns; it fires as     *)
(* long as clearInterval has not been called on it.                        *)
(***************************************************************************)
MaxTimers == 3
MaxSweeps == 2
TimerDrivers == {"memory", "lru"}

\* the mutant of clearInterval: the timer stays active
clearIntervalNot(ts, id) == ts

clearInterval(ts, id) == ts \ {id}

\* startCleanup(): clear the interval there is, set a new one
startCleanup ==
  /\ created < MaxTimers
  /\ timers' = (IF cleanupInterval # 0 THEN clearInterval(timers, cleanupInterval)
                ELSE timers) \cup {created + 1}
  /\ cleanupInterval' = created + 1
  /\ created' = created + 1
  /\ stopped' = FALSE
  /\ disc' = IF disc = "awaiting" THEN "restarted" ELSE disc
  /\ UNCHANGED <<timerDriver, sweeping, ticked>>

\* an active timer fires: the callback starts and suspends at its first await
TimerTick ==
  /\ sweeping < MaxSweeps
  /\ \E id \in timers : ticked' = id
  /\ sweeping' = sweeping + 1
  /\ UNCHANGED <<timerDriver, cleanupInterval, timers, created, disc, stopped>>

\* a callback runs to its end
TimerSweepDone ==
  /\ sweeping > 0
  /\ sweeping' = sweeping - 1
  /\ UNCHANGED <<timerDriver, cleanupInterval, timers, created, ticked, disc, stopped>>

\* disconnect() up to `await super.disconnect()`
TimerDisconnect ==
  /\ disc = "idle"
  /\ timers' = IF cleanupInterval # 0 THEN clearInterval(timers, cleanupInterval)
               ELSE timers
  /\ cleanupInterval' = 0
  /\ disc' = "awaiting"
  /\ UNCHANGED <<timerDriver, created, sweeping, ticked, stopped>>

\* super.disconnect() has emitted `disconnected`: disconnect() completes
TimerDisconnectDone ==
  /\ disc \in {"awaiting", "restarted"}
  /\ stopped' = (disc = "awaiting")
  /\ disc' = "idle"
  /\ UNCHANGED <<timerDriver, cleanupInterval, timers, created, sweeping, ticked>>

(***************************************************************************)
(* The specifications: one per subsystem.  The other subsystems stay as    *)
(* constructed.                                                            *)
(***************************************************************************)
\* the memory driver, constructed and unused
MemIdle ==
  /\ data = [k \in MemKeys |-> Absent]
  /\ temporaryData = [k \in MemKeys |-> NoTemp]
  /\ accessOrder = <<>>
  /\ memSweep = IdleSweep
  /\ watch = [k \in MemKeys |-> NoWatch]
  /\ memRet = NoRet
  /\ memEvents = <<>>

DefaultOptions == [globalPrefix |-> <<>>, name |-> "memory", maxSize |-> 0, ttl |-> Undefined]

\* the decorator and its wrapped driver, constructed and unused
TagIdle ==
  /\ wrapped = [map |-> [k \in WrappedKeys |-> NoEntry], order |-> <<>>]
  /\ tagged = [t \in Tags |-> {}]
  /\ tagCalls = [c \in TagCallers |-> IdleTagCall]
  /\ produced = 0

\* the caller's objects o1 = {x: 1, child: o2} and o2 = {x: 2}; nothing stored
CopyIdle ==
  /\ heap = [r \in Refs |-> IF r = "o1" THEN [x |-> "1", child |-> "o2"]
                            ELSE IF r = "o2" THEN [x |-> "2", child |-> NoRef]
                            ELSE FreeObj]
  /\ entries = [k \in {CopyParseKey(k) : k \in CopyRawKeys} |-> Null]
  /\ copyRet = NoRet

\* the store underneath increment, empty
IncIdle ==
  /\ counters = [k \in {IncParseKey(k) : k \in IncRawKeys} |-> JsNull]
  /\ incRet = NoIncRet
  /\ incCalls = [c \in IncCallers |-> IdleInc]

\* a manager as constructed, with its configurations set; the application's
\* driver object exists
MgrIdle ==
  /\ drivers = [i \in MgrInsts |-> IF i = 0 THEN [name |-> "custom", listeners |-> {}]
                                    ELSE FreeInst]
  /\ loadedDrivers = [n \in MgrNames |-> NoInst]
  /\ currentDriver = NoInst
  /\ globalEventListeners = {}
  /\ calls = [c \in MgrCalls |-> IdleCall]
  /\ mgrRet = "none"

\* a driver without handlers, no operation under way
EmitIdle ==
  /\ eventListeners = <<>>
  /\ emitted = NoEmit
  /\ emitOp = [op |-> "none", pc |-> "idle"]
  /\ onceHandlers = [h \in OnceHandlers |-> NoOnce]
  /\ onceEmits = 0

\* no entry stored, nothing read
TtlIdle ==
  /\ ttlEntries = [k \in TtlKeys |-> Absent]
  /\ ttlLast = [k \in TtlKeys |-> NoTtlSet]
  /\ ttlRet = NoTtlRet

\* the driver as its constructor leaves it: one timer set
TimerIdle ==
  /\ cleanupInterval = 1
  /\ timers = {1}
  /\ created = 1
  /\ sweeping = 0
  /\ ticked = 0
  /\ disc = "idle"
  /\ stopped = FALSE

restOfRem == <<lruVars, now, memVars, tagVars, copyVars, incVars, mgrVars, emitVars, ttlVars,
              timerVars>>
restOfLru == <<remVars, memVars, tagVars, copyVars, incVars, mgrVars, emitVars, ttlVars,
              timerVars>>
restOfMem == <<remVars, lruVars, tagVars, copyVars, incVars, mgrVars, emitVars, ttlVars,
              timerVars>>
restOfTag == <<remVars, lruVars, now, memVars, copyVars, incVars, mgrVars, emitVars, ttlVars,
              timerVars>>
restOfCopy == <<remVars, lruVars, now, memVars, tagVars, incVars, mgrVars, emitVars, ttlVars,
              timerVars>>
restOfInc == <<remVars, lruVars, now, memVars, tagVars, copyVars, mgrVars, emitVars, ttlVars,
              timerVars>>

InitRem ==
  /\ RemIdle
  /\ LruIdle /\ capacity = 1 /\ now = 1
  /\ memOptions = DefaultOptions /\ MemIdle
  /\ tagOptions = DefaultOptions /\ TagIdle
  /\ copyDriver = "memory" /\ CopyIdle
  /\ IncIdle
  /\ MgrIdle
  /\ EmitIdle
  /\ ttlOptions = [name |-> "memory", ttl |-> Undefined] /\ TtlIdle
  /\ timerDriver = "memory" /\ TimerIdle

NextRem ==
  \/ \E c \in Callers, k \in RemRawKeys : RememberCall(c, k) /\ UNCHANGED restOfRem
  \/ \E c \in Callers : RememberResume(c) /\ UNCHANGED restOfRem
  \/ \E t \in Tickets, v \in RemValues : ProducerResolve(t, v) /\ UNCHANGED restOfRem
  \/ \E t \in Tickets : SetReturn(t) /\ UNCHANGED restOfRem
  \/ \E t \in Tickets : ProducerReject(t) /\ UNCHANGED restOfRem
  \/ \E c \in Callers : CallerSettle(c) /\ UNCHANGED restOfRem
  \/ \E k \in RemRawKeys : DriverRemove(k) /\ UNCHANGED restOfRem
  \/ DriverFlush /\ UNCHANGED restOfRem

SpecRem == InitRem /\ [][NextRem]_vars

InitLru ==
  /\ RemIdle
  /\ LruIdle /\ capacity \in Capacities /\ now = 1
  /\ memOptions = DefaultOptions /\ MemIdle
  /\ tagOptions = DefaultOptions /\ TagIdle
  /\ copyDriver = "memory" /\ CopyIdle
  /\ IncIdle
  /\ MgrIdle
  /\ EmitIdle
  /\ ttlOptions = [name |-> "memory", ttl |-> Undefined] /\ TtlIdle
  /\ timerDriver = "memory" /\ TimerIdle

NextLru ==
  \/ \E k \in LruRawKeys, v \in LruValues, t \in LruTtls :
        LruSet(k, v, t) /\ UNCHANGED restOfLru
  \/ \E k \in LruRawKeys : LruGet(k) /\ UNCHANGED restOfLru
  \/ \E k \in LruRawKeys : LruRemove(k) /\ UNCHANGED restOfLru
  \/ LruFlush /\ UNCHANGED restOfLru
  \/ SweepStart /\ UNCHANGED restOfLru
  \/ SweepResume /\ UNCHANGED restOfLru
  \/ LruTick /\ UNCHANGED restOfLru

SpecLru == InitLru /\ [][NextLru]_vars

\* has(key) on the LRU driver between sets, as time passes
NextHas ==
  \/ \E k \in LruRawKeys, v \in LruValues, t \in LruTtls :
        LruSet(k, v, t) /\ UNCHANGED restOfLru
  \/ \E k \in LruRawKeys : LruHas(k) /\ UNCHANGED restOfLru
  \/ LruTick /\ UNCHANGED restOfLru

SpecHas == InitLru /\ [][NextHas]_vars

InitMem ==
  /\ RemIdle
  /\ LruIdle /\ capacity = 1 /\ now = 1
  /\ memOptions \in [globalPrefix : {<<>>, <<"p">>}, name : {"memory", "memoryExtended"},
                    maxSize : {0}, ttl : {Undefined}]
  /\ MemIdle
  /\ tagOptions = DefaultOptions /\ TagIdle
  /\ copyDriver = "memory" /\ CopyIdle
  /\ IncIdle
  /\ MgrIdle
  /\ EmitIdle
  /\ ttlOptions = [name |-> "memory", ttl |-> Undefined] /\ TtlIdle
  /\ timerDriver = "memory" /\ TimerIdle

NextMem ==
  \/ \E c \in MemSets : MemSet(c[1], c[2], c[3]) /\ UNCHANGED restOfMem
  \/ \E k \in MemRawKeys : MemGet(k) /\ UNCHANGED restOfMem
  \/ \E k \in MemRawKeys : MemRemove(k) /\ UNCHANGED restOfMem
  \/ \E ns \in MemNamespaces : MemRemoveNamespace(ns) /\ UNCHANGED restOfMem
  \/ MemFlush /\ UNCHANGED restOfMem
  \/ MemSweepStart /\ UNCHANGED restOfMem
  \/ MemSweepResume /\ UNCHANGED restOfMem
  \/ MemTick /\ UNCHANGED restOfMem

SpecMem == InitMem /\ [][NextMem]_vars

\* setInterval(..., 1000): as long as the driver is not disconnected the
\* callback keeps being called, and a suspended callback resumes once the
\* promise it awaits has settled
LiveMem ==
  /\ SpecMem
  /\ WF_vars(MemSweepStart /\ UNCHANGED restOfMem)
  /\ WF_vars(MemSweepResume /\ UNCHANGED restOfMem)

\* the sweep against sets of one key with a finite ttl, ttl 0 and an infinite
\* ttl, removeNamespace and flush
SweepSets == {<<<<"user", ":", "profile">>, "1", 1>>,
              <<<<"user", ":", "profile">>, "2", 0>>,
              <<<<"user", ":", "profile">>, "2", Infinity>>,
              <<<<"other", ".", "k">>, "1", Undefined>>}

NextSweep ==
  \/ \E c \in SweepSets : MemSet(c[1], c[2], c[3]) /\ UNCHANGED restOfMem
  \/ \E ns \in MemNamespaces : MemRemoveNamespace(ns) /\ UNCHANGED restOfMem
  \/ MemFlush /\ UNCHANGED restOfMem
  \/ MemSweepStart /\ UNCHANGED restOfMem
  \/ MemSweepResume /\ UNCHANGED restOfMem
  \/ MemTick /\ UNCHANGED restOfMem

SpecSweep == InitMem /\ [][NextSweep]_vars

\* the memory driver with options.maxSize configured
MaxSizes == {1, 2}

InitMax ==
  /\ RemIdle
  /\ LruIdle /\ capacity = 1 /\ now = 1
  /\ memOptions \in [globalPrefix : {<<>>}, name : {"memory"}, maxSize : MaxSizes,
                    ttl : {Undefined}]
  /\ MemIdle
  /\ tagOptions = DefaultOptions /\ TagIdle
  /\ copyDriver = "memory" /\ CopyIdle
  /\ IncIdle
  /\ MgrIdle
  /\ EmitIdle
  /\ ttlOptions = [name |-> "memory", ttl |-> Undefined] /\ TtlIdle
  /\ timerDriver = "memory" /\ TimerIdle

SpecMax == InitMax /\ [][NextMem]_vars

\* the sliding-expiration variant, with and without options.ttl, and the
\* calls set(key, value, ttl) explored on it
SlideTtls == {Undefined, 2}
SlideSets == {<<<<"user">>, "1", 0>>,
              <<<<"user", ":", "profile">>, "1", 1>>,
              <<<<"other", ".", "k">>, "1", Undefined>>,
              <<<<"other", ".", "k">>, "1", Infinity>>}

InitSlide ==
  /\ RemIdle
  /\ LruIdle /\ capacity = 1 /\ now = 1
  /\ memOptions \in [globalPrefix : {<<>>}, name : {"memoryExtended"}, maxSize : {0},
                    ttl : SlideTtls]
  /\ MemIdle
  /\ tagOptions = DefaultOptions /\ TagIdle
  /\ copyDriver = "memory" /\ CopyIdle
  /\ IncIdle
  /\ MgrIdle
  /\ EmitIdle
  /\ ttlOptions = [name |-> "memory", ttl |-> Undefined] /\ TtlIdle
  /\ timerDriver = "memory" /\ TimerIdle

NextSlide ==
  \/ \E c \in SlideSets : MemSet(c[1], c[2], c[3]) /\ UNCHANGED restOfMem
  \/ \E k \in MemRawKeys : MemGet(k) /\ UNCHANGED restOfMem
  \/ MemSweepStart /\ UNCHANGED restOfMem
  \/ MemSweepResume /\ UNCHANGED restOfMem
  \/ MemTick /\ UNCHANGED restOfMem

SpecSlide == InitSlide /\ [][NextSlide]_vars

InitTag ==
  /\ RemIdle
  /\ LruIdle /\ capacity = 1 /\ now = 1
  /\ memOptions = DefaultOptions /\ MemIdle
  /\ tagOptions \in TagDrivers
  /\ TagIdle
  /\ copyDriver = "memory" /\ CopyIdle
  /\ IncIdle
  /\ MgrIdle
  /\ EmitIdle
  /\ ttlOptions = [name |-> "memory", ttl |-> Undefined] /\ TtlIdle
  /\ timerDriver = "memory" /\ TimerIdle

NextTag ==
  \/ \E T \in TagLists, k \in TagRawKeys, v \in TagValues :
        TagSet(T, k, v) /\ UNCHANGED restOfTag
  \/ \E T \in TagLists, k \in TagRawKeys : TagRemove(T, k) /\ UNCHANGED restOfTag
  \/ \E T \in TagLists : TagInvalidate(T) /\ UNCHANGED restOfTag
  \/ \E k \in TagRawKeys, v \in TagValues : WrappedSet(k, v) /\ UNCHANGED restOfTag
  \/ \E k \in TagRawKeys : WrappedExpire(k) /\ UNCHANGED restOfTag

SpecTag == InitTag /\ [][NextTag]_vars

\* tagged set and remember calls that may overlap, one call per caller
NextTagCalls ==
  \/ \E c \in TagCallers, T \in TagLists, k \in TagRawKeys, v \in TagValues :
        TaggedSetCall(c, T, k, v) /\ UNCHANGED restOfTag
  \/ \E c \in TagCallers, T \in TagLists, k \in TagRawKeys :
        TaggedRememberCall(c, T, k) /\ UNCHANGED restOfTag
  \/ \E c \in TagCallers : TaggedRememberResume(c) /\ UNCHANGED restOfTag
  \/ \E c \in TagCallers : TaggedRememberStore(c) /\ UNCHANGED restOfTag
  \/ \E c \in TagCallers : StoreTaggedKeyGet(c) /\ UNCHANGED restOfTag
  \/ \E c \in TagCallers : StoreTaggedKeyPush(c) /\ UNCHANGED restOfTag

SpecTagCalls == InitTag /\ [][NextTagCalls]_vars

InitCopy ==
  /\ RemIdle
  /\ LruIdle /\ capacity = 1 /\ now = 1
  /\ memOptions = DefaultOptions /\ MemIdle
  /\ tagOptions = DefaultOptions /\ TagIdle
  /\ copyDriver \in {"memory", "lru"}
  /\ CopyIdle
  /\ IncIdle
  /\ MgrIdle
  /\ EmitIdle
  /\ ttlOptions = [name |-> "memory", ttl |-> Undefined] /\ TtlIdle
  /\ timerDriver = "memory" /\ TimerIdle

NextCopy ==
  \/ \E k \in CopyRawKeys, v \in Prims \cup {"o1", "o2"} :
        CopySet(k, v) /\ UNCHANGED restOfCopy
  \/ \E k \in CopyRawKeys : CopyGet(k) /\ UNCHANGED restOfCopy
  \/ \E r \in Refs, x \in Prims : CopyMutate(r, x) /\ UNCHANGED restOfCopy

SpecCopy == InitCopy /\ [][NextCopy]_vars

InitInc ==
  /\ RemIdle
  /\ LruIdle /\ capacity = 1 /\ now = 1
  /\ memOptions = DefaultOptions /\ MemIdle
  /\ tagOptions = DefaultOptions /\ TagIdle
  /\ copyDriver = "memory" /\ CopyIdle
  /\ IncIdle
  /\ MgrIdle
  /\ EmitIdle
  /\ ttlOptions = [name |-> "memory", ttl |-> Undefined] /\ TtlIdle
  /\ timerDriver = "memory" /\ TimerIdle

NextInc ==
  \/ \E k \in IncRawKeys, v \in JsValues : IncSet(k, v) /\ UNCHANGED restOfInc
  \/ \E k \in IncRawKeys, d \in IncDeltas : increment(k, d) /\ UNCHANGED restOfInc
  \/ \E k \in IncRawKeys, d \in IncDeltas : decrement(k, d) /\ UNCHANGED restOfInc

SpecInc == InitInc /\ [][NextInc]_vars

\* overlapping increment calls, on keys that hold nothing, a number or a string
RmwValues == {JsNum(0), JsNum(1), JsStr("text")}

NextRmw ==
  \/ \E k \in IncRawKeys, v \in RmwValues : IncSet(k, v) /\ UNCHANGED restOfInc
  \/ \E c \in IncCallers, k \in IncRawKeys, d \in IncDeltas :
        IncStart(c, k, d) /\ UNCHANGED restOfInc
  \/ \E c \in IncCallers : IncFinish(c) /\ UNCHANGED restOfInc

SpecRmw == InitInc /\ [][NextRmw]_vars

restOfMgr == <<remVars, lruVars, now, memVars, tagVars, copyVars, incVars, emitVars, ttlVars,
              timerVars>>

InitMgr ==
  /\ RemIdle
  /\ LruIdle /\ capacity = 1 /\ now = 1
  /\ memOptions = DefaultOptions /\ MemIdle
  /\ tagOptions = DefaultOptions /\ TagIdle
  /\ copyDriver = "memory" /\ CopyIdle
  /\ IncIdle
  /\ MgrIdle
  /\ EmitIdle
  /\ ttlOptions = [name |-> "memory", ttl |-> Undefined] /\ TtlIdle
  /\ timerDriver = "memory" /\ TimerIdle

NextMgr ==
  \/ \E h \in MgrHandlers : MgrOn(h) /\ UNCHANGED restOfMgr
  \/ \E c \in MgrCalls, op \in {"load", "driver", "use", "init"}, n \in MgrAskedNames :
        LoadCall(c, op, n) /\ UNCHANGED restOfMgr
  \/ \E c \in MgrCalls : LoadResume(c) /\ UNCHANGED restOfMgr
  \/ \E c \in MgrCalls : LoadReject(c) /\ UNCHANGED restOfMgr
  \/ \E c \in MgrCalls : UseResume(c) /\ UNCHANGED restOfMgr
  \/ UseDriver /\ UNCHANGED restOfMgr
  \/ \E op \in ForwardOps : Forward(op) /\ UNCHANGED restOfMgr

SpecMgr == InitMgr /\ [][NextMgr]_vars

restOfEmit == <<remVars, lruVars, now, memVars, tagVars, copyVars, incVars, mgrVars, ttlVars,
              timerVars>>

InitEmit ==
  /\ RemIdle
  /\ LruIdle /\ capacity = 1 /\ now = 1
  /\ memOptions = DefaultOptions /\ MemIdle
  /\ tagOptions = DefaultOptions /\ TagIdle
  /\ copyDriver = "memory" /\ CopyIdle
  /\ IncIdle
  /\ MgrIdle
  /\ EmitIdle
  /\ ttlOptions = [name |-> "memory", ttl |-> Undefined] /\ TtlIdle
  /\ timerDriver = "memory" /\ TimerIdle

NextEmit ==
  \/ \E k \in HandlerKinds : EmitOn(k) /\ UNCHANGED restOfEmit
  \/ \E op \in EmitOps : EmitCall(op) /\ UNCHANGED restOfEmit
  \/ EmitSettle /\ UNCHANGED restOfEmit

SpecEmit == InitEmit /\ [][NextEmit]_vars

\* one-time listeners and the emissions of one event
NextOnce ==
  \/ \E h \in OnceHandlers, k \in HandlerKinds : Once(h, k) /\ UNCHANGED restOfEmit
  \/ OnceEmit /\ UNCHANGED restOfEmit
  \/ \E h \in OnceHandlers : OnceOff(h) /\ UNCHANGED restOfEmit

SpecOnce == InitEmit /\ [][NextOnce]_vars

restOfTtl == <<remVars, lruVars, memVars, tagVars, copyVars, incVars, mgrVars, emitVars,
              timerVars>>

InitTtl ==
  /\ RemIdle
  /\ LruIdle /\ capacity = 1 /\ now = 1
  /\ memOptions = DefaultOptions /\ MemIdle
  /\ tagOptions = DefaultOptions /\ TagIdle
  /\ copyDriver = "memory" /\ CopyIdle
  /\ IncIdle
  /\ MgrIdle
  /\ EmitIdle
  /\ ttlOptions \in [name : TtlDrivers, ttl : TtlDefaults] /\ TtlIdle
  /\ timerDriver = "memory" /\ TimerIdle

NextTtl ==
  \/ \E k \in TtlRawKeys, v \in TtlValues, t \in TtlArgs :
        TtlSet(k, v, t) /\ UNCHANGED restOfTtl
  \/ \E k \in TtlRawKeys : TtlGet(k) /\ UNCHANGED restOfTtl
  \/ TtlTick /\ UNCHANGED restOfTtl

SpecTtl == InitTtl /\ [][NextTtl]_vars

restOfTimer == <<remVars, lruVars, now, memVars, tagVars, copyVars, incVars, mgrVars, emitVars,
                 ttlVars>>

InitTimer ==
  /\ RemIdle
  /\ LruIdle /\ capacity = 1 /\ now = 1
  /\ memOptions = DefaultOptions /\ MemIdle
  /\ tagOptions = DefaultOptions /\ TagIdle
  /\ copyDriver = "memory" /\ CopyIdle
  /\ IncIdle
  /\ MgrIdle
  /\ EmitIdle
  /\ ttlOptions = [name |-> "memory", ttl |-> Undefined] /\ TtlIdle
  /\ timerDriver \in TimerDrivers /\ TimerIdle

NextTimer ==
  \/ startCleanup /\ UNCHANGED restOfTimer
  \/ TimerTick /\ UNCHANGED restOfTimer
  \/ TimerSweepDone /\ UNCHANGED restOfTimer
  \/ TimerDisconnect /\ UNCHANGED restOfTimer
  \/ TimerDisconnectDone /\ UNCHANGED restOfTimer

SpecTimer == InitTimer /\ [][NextTimer]_vars

(***************************************************************************)
(* C1 (stated as claimed): remember() calls for one canonical key issued   *)
(* on a miss before the first of them has resolved share one producer      *)
(* invocation and receive the same value.                                  *)
(***************************************************************************)
C1_StampedeGuard ==
  \A c1, c2 \in Callers :
    (/\ callers[c1].group # 0 /\ callers[c1].group = callers[c2].group
     /\ \A t \in Tickets : tickets[t].st # "rejected") =>
      /\ (callers[c1].ticket # NoTicket /\ callers[c2].ticket # NoTicket)
            => callers[c1].ticket = callers[c2].ticket
      /\ (callers[c1].pc = "done" /\ callers[c2].pc = "done")
            => Result(c1) = Result(c2)

(***************************************************************************)
(* C2: a failing producer reaches every caller awaiting it, stores         *)
(* nothing, clears the lock entry, and is never replayed: the lock table   *)
(* never holds a failed computation and a caller that takes a lock or      *)
(* creates one always waits on an unsettled computation.                   *)
(***************************************************************************)
C2_LockNeverFailed ==
  /\ \A k \in RemKeys :
       locks[k] # NoTicket => tickets[locks[k]].st \in {"pending", "saving"}
  /\ \A c \in Callers :
       (callers[c].pc = "done" /\ Result(c) = Fail) =>
          locks[callers[c].key] # callers[c].ticket

C2_RejectStep ==
  /\ \A t \in Tickets :
       (tickets[t].st = "pending" /\ tickets'[t].st = "rejected") =>
          /\ store' = store
          /\ locks'[tickets[t].key] = NoTicket
  /\ \A c \in Callers :
       (callers[c].pc = "get" /\ callers'[c].pc = "wait") =>
          tickets'[callers'[c].ticket].st \in {"pending", "saving"}

C2_FailurePropagates == [](C2_LockNeverFailed) /\ [][C2_RejectStep]_vars

\* a caller received the failure of its computation, and a later call for the
\* same key ran the producer again and cached its value
C2_Witness ==
  \E c1, c2 \in Callers :
    /\ callers[c1].pc = "done" /\ Result(c1) = Fail
    /\ callers[c2].key = callers[c1].key
    /\ callers[c2].ticket # NoTicket
    /\ callers[c2].ticket # callers[c1].ticket
    /\ tickets[callers[c2].ticket].st = "fulfilled"
    /\ callers[c2].pc = "done"
    /\ store[callers[c1].key] = Result(c2)
(***************************************************************************)
(* C3: a set that inserts a new key into a full LRU store evicts exactly   *)
(* one entry, the one whose last successful get or set is the oldest;      *)
(* every other entry stays, with its value and expiry.                     *)
(***************************************************************************)
C3_Step ==
  \A k \in LruKeys :
    (/\ cache[k] = NullNode /\ cache'[k] # NullNode
     /\ Cardinality(Held(cache)) = capacity) =>
       LET victim == recency[Len(recency)]
       IN  /\ cache'[victim] = NullNode
           /\ evicted' = victim
           /\ Cardinality(Held(cache')) = capacity
           /\ \A x \in LruKeys \ {k, victim} :
                 cache[x] # NullNode =>
                   /\ cache'[x] # NullNode
                   /\ nodes'[cache'[x]] = nodes[cache[x]]

C3_EvictsLeastRecent == [][C3_Step]_vars

\* capacity 2: "b" was evicted by the set of "c" while "a", read after "b"
\* was written, stays
C3_Witness ==
  /\ capacity = 2
  /\ evicted = <<"b">>
  /\ recency = << <<"c">>, <<"a">> >>
  /\ cache[<<"a">>] # NullNode /\ cache[<<"c">>] # NullNode

(***************************************************************************)
(* C4: in every reachable state of the LRU store a key is in the index iff *)
(* its node is linked exactly once between head and tail, prev and next    *)
(* agree, and the list order is the order of most recent successful access.*)
(***************************************************************************)
RECURSIVE Walk(_, _)
Walk(n, fuel) ==
  IF n = tail THEN <<>>
  ELSE IF n \notin Nodes \/ fuel = 0 THEN <<NullNode>>
  ELSE <<n>> \o Walk(list.next[n], fuel - 1)

Chain == Walk(list.next[head], Cardinality(Nodes))

C4_LruStructure ==
  /\ \A i \in DOMAIN Chain : Chain[i] \in Nodes
  /\ \A i, j \in DOMAIN Chain : i # j => Chain[i] # Chain[j]
  /\ {Chain[i] : i \in DOMAIN Chain} = Held(cache)
  /\ \A k1, k2 \in LruKeys :
       (cache[k1] # NullNode /\ cache[k1] = cache[k2]) => k1 = k2
  /\ \A k \in LruKeys : cache[k] # NullNode => nodes[cache[k]].key = k
  /\ \A i \in DOMAIN Chain :
       list.prev[Chain[i]] = (IF i = 1 THEN head ELSE Chain[i - 1])
  /\ list.prev[tail] = (IF Chain = <<>> THEN head ELSE Chain[Len(Chain)])
  /\ list.prev[head] = NullNode /\ list.next[tail] = NullNode
  /\ [i \in DOMAIN Chain |-> nodes[Chain[i]].key] = recency

\* the sweep is suspended between two removals while two entries are linked
C4_Witness ==
  /\ sweep # <<>>
  /\ Len(Chain) = 2
  /\ Len(recency) = 2

(***************************************************************************)
(* C6 (stated as claimed): once the first get after the expiry of an entry *)
(* set with a finite TTL on the memory driver has returned, and the sweep  *)
(* has nothing left to do for the key, that get returned null and exactly  *)
(* one `expired` and one `miss` event were emitted for the key.            *)
(***************************************************************************)
C6_ExpiryEvents ==
  \A k \in DOMAIN watch :
    (/\ memOptions.name = "memory"
     /\ watch[k].got # "none"
     /\ memSweep.pc = "idle" /\ temporaryData[k] = NoTemp) =>
       /\ watch[k].got = Null
       /\ watch[k].expired = 1
       /\ watch[k].miss = 1

(***************************************************************************)
(* C7 (stated as claimed): a get never returns the value of an entry whose *)
(* expiry time is in the past when the get is called, swept or not.        *)
(***************************************************************************)
C7_Step ==
  \A k \in MemRawKeys :
    (/\ MemGet(k)
     /\ data[MemParseKey(k)].expiresAt # NoExpiry
     /\ data[MemParseKey(k)].expiresAt < now) => memRet' = Null

C7_PastExpiryIsMiss == [][C7_Step]_vars

(***************************************************************************)
(* C10: a removeNamespace(ns) step of the memory driver leaves nothing     *)
(* that get could find at any key whose canonical path lies at or under    *)
(* ns, and leaves the entry of every key whose first path segment is not   *)
(* the (first) segment of ns as it was.  Paths are taken below the global  *)
(* prefix.                                                                 *)
(***************************************************************************)
C10_Step ==
  \A ns \in MemNamespaces :
    MemRemoveNamespace(ns) =>
      \A r \in MemRawKeys :
        /\ IsUnder(StripKey(r), StripKey(ns)) =>
              MemLookup(data', MemParseKey(r)) = Absent
        /\ Head(Segs(StripKey(r))) # Head(Segs(StripKey(ns))) =>
              data'[MemParseKey(r)] = data[MemParseKey(r)]

C10_NamespaceClearing == [][C10_Step]_vars

\* a removeNamespace has just cleared "user" and "user.profile", both set
\* before, under the prefix "p", while "other.k" holds "2"
C10_Witness ==
  /\ memRet = "cleared"
  /\ memOptions.globalPrefix = <<"p">>
  /\ data[MemParseKey(<<"other", ".", "k">>)].data = "2"
  /\ \A r \in {<<"user">>, <<"user", ":", "profile">>} :
        /\ data[MemParseKey(r)] = Absent
        /\ temporaryData[MemParseKey(r)] # NoTemp

(***************************************************************************)
(* C5: on the memory and LRU drivers a get that finds a non-primitive      *)
(* value returns a new object graph that shares no object with anything    *)
(* stored and has the content of the stored value; and writing a field of  *)
(* an object of the returned graph leaves the content of every stored      *)
(* value, which is what later gets return, as it was.                      *)
(***************************************************************************)
RECURSIVE Content(_, _)
Content(h, v) == IF v \notin Refs THEN <<v>> ELSE <<h[v].x>> \o Content(h, h[v].child)

C5_Step ==
  /\ \A k \in CopyRawKeys :
       (CopyGet(k) /\ entries[CopyParseKey(k)] \in Refs) =>
          /\ copyRet' \in Refs
          /\ \A e \in DOMAIN entries :
                Reach(heap', copyRet') \cap Reach(heap', entries[e]) = {}
          /\ Content(heap', copyRet') = Content(heap, entries[CopyParseKey(k)])
  /\ \A r \in Reach(heap, copyRet), x \in Prims :
       CopyMutate(r, x) =>
          \A e \in DOMAIN entries :
             Content(heap', entries'[e]) = Content(heap, entries[e])

C8_Step ==
  \A T \in TagLists :
    TagInvalidate(T) =>
      \A t \in Range(T) :
        /\ drvGet(wrapped', tagKey(t)) = NoEntry
        /\ \A k \in tagged[t] : drvGet(wrapped', k) = NoEntry

C8_InvalidateRemoves == [][C8_Step]_vars

(***************************************************************************)
(* C9 (stated as claimed): invalidate() on an instance bound to the tags T *)
(* leaves every key recorded only under tags outside T with its value, and *)
(* leaves the tag-index entries of the tags outside T as they were.        *)
(***************************************************************************)
C9_Step ==
  \A T \in TagLists :
    TagInvalidate(T) =>
      \A u \in Tags \ Range(T) :
        /\ drvGet(wrapped', tagKey(u)) = drvGet(wrapped, tagKey(u))
        /\ \A k \in tagged[u] \ UNION {tagged[t] : t \in Range(T)} :
              drvGet(wrapped', k) = drvGet(wrapped, k)

C9_InvalidateScoped == [][C9_Step]_vars

(***************************************************************************)
(* C11 (stated as claimed): an increment or decrement of a key whose       *)
(* stored value is not a number (a string, the empty string included, a    *)
(* boolean or an object) fails with the type-mismatch error and leaves the *)
(* stored value as it was.                                                 *)
(***************************************************************************)
C11_Step ==
  \A k \in IncRawKeys, d \in IncDeltas :
    (/\ increment(k, d) \/ decrement(k, d)
     /\ counters[IncParseKey(k)].type \in {"string", "boolean", "object"}) =>
       /\ incRet'.error = "TypeMismatch"
       /\ counters' = counters

C11_TypeMismatch == [][C11_Step]_vars

(***************************************************************************)
(* C12 (stated as claimed): a remember() whose get found a non-null value  *)
(* under the key (here the numbers 0 and 1) returns that value, invokes no *)
(* producer, joins no computation and leaves the entry as it is.           *)
(***************************************************************************)
C12_Step ==
  \A c \in Callers :
    (RememberResume(c) /\ callers[c].cached # Null) =>
       /\ callers'[c].pc = "done"
       /\ callers'[c].ticket = NoTicket
       /\ callers'[c].cached = callers[c].cached
       /\ tickets' = tickets
       /\ store' = store

C12_ReturnsCached == [][C12_Step]_vars

(***************************************************************************)
(* C13: in every state of every interleaving of remember calls with        *)
(* remove and flush, each canonical key has at most one producer           *)
(* computation in flight (its producer pending or its set unfinished), and *)
(* the lock table holds a ticket for the key exactly while there is one:   *)
(* that computation's ticket.                                              *)
(***************************************************************************)
InFlight(k) == {t \in Tickets : tickets[t].key = k /\ tickets[t].st \in {"pending", "saving"}}

C13_TicketInvariant ==
  \A k \in RemKeys :
    /\ Cardinality(InFlight(k)) <= 1
    /\ locks[k] # NoTicket => InFlight(k) = {locks[k]}
    /\ locks[k] = NoTicket => InFlight(k) = {}

\* a second computation for a key holds the lock after the first one, for the
\* same key, has finished and released it
C13_Witness ==
  \E k \in RemKeys, t1, t2 \in Tickets :
    /\ t1 # t2
    /\ tickets[t1].key = k /\ tickets[t1].st = "fulfilled"
    /\ tickets[t2].key = k /\ tickets[t2].st = "saving"
    /\ locks[k] = t2

(***************************************************************************)
(* C14: with options.capacity fixed at C (1000 when it is left out) the    *)
(* LRU store holds at most C entries in every state, the states in which a *)
(* sweep is suspended included, and a set of a key that is present changes *)
(* no other entry's presence: it evicts nothing.                           *)
(***************************************************************************)
C14_Bound ==
  Cardinality({k \in LruKeys : cache[k] # NullNode})
     <= (IF capacity = 0 THEN DefaultCapacity ELSE capacity)

C14_Step ==
  \A k \in LruRawKeys, v \in LruValues, t \in LruTtls :
    (/\ cache[LruParseKey(k)] # NullNode
     /\ recency' # <<>> /\ Head(recency') = LruParseKey(k)
     /\ LruSet(k, v, t)) =>
       /\ evicted' = <<>>
       /\ \A x \in LruKeys : (cache'[x] # NullNode) <=> (cache[x] # NullNode)

C15_MembershipPersists ==
  \A t \in Tags : \A k \in tagged[t] : TagParseKey(k) \in Range(listOf(wrapped, t))

(***************************************************************************)
(* C16 (stated as claimed): over every interleaving of load, driver, use   *)
(* and init calls on one manager, at most one driver is constructed (and   *)
(* connected) per name, and the calls that have returned a driver for a    *)
(* name have returned the same one.                                        *)
(***************************************************************************)
C16_ConnectOnce ==
  /\ \A n \in MgrNames : Cardinality({i \in 1..MaxInst : drivers[i].name = n}) <= 1
  /\ \A c1, c2 \in MgrCalls :
       (/\ calls[c1].pc = "done" /\ calls[c2].pc = "done"
        /\ calls[c1].name = calls[c2].name) => calls[c1].inst = calls[c2].inst

(***************************************************************************)
(* C17 (stated as claimed): each forwarding operation of the manager,      *)
(* disconnect included, invoked while no driver is active ends with the    *)
(* not-initialized error and leaves the manager's state as it was.         *)
(***************************************************************************)
C17_Step ==
  \A op \in ForwardOps :
    (Forward(op) /\ currentDriver = NoInst) =>
       /\ mgrRet' = "NotInitialized"
       /\ UNCHANGED <<drivers, loadedDrivers, currentDriver, globalEventListeners, calls>>

C17_NotInitialized == [][C17_Step]_vars

(***************************************************************************)
(* C18: in every state reached by on, load, driver, use and init calls,    *)
(* every pair in the manager's global listener set is registered on the    *)
(* active driver and on every loaded driver.                               *)
(***************************************************************************)
C18_GlobalListeners ==
  \A h \in globalEventListeners :
    /\ currentDriver # NoInst => h \in drivers[currentDriver].listeners
    /\ \A n \in MgrNames :
         loadedDrivers[n] # NoInst => h \in drivers[loadedDrivers[n]].listeners

\* both handlers are global and sit on the application's driver, which is
\* active, and on the loaded "lru" driver, while the "memory" driver, built
\* before they were registered, is still connecting without them
C18_Witness ==
  /\ globalEventListeners = MgrHandlers
  /\ currentDriver = 0 /\ drivers[0].listeners = MgrHandlers
  /\ loadedDrivers["lru"] # NoInst
  /\ drivers[loadedDrivers["lru"]].listeners = MgrHandlers
  /\ loadedDrivers["memory"] = NoInst
  /\ \E c \in MgrCalls :
       /\ calls[c].pc = "connecting" /\ calls[c].name = "memory"
       /\ drivers[calls[c].inst].listeners = {}

(***************************************************************************)
(* C19: every emission invokes every handler registered for the event,     *)
(* whichever of them throw or return promises that reject, and the         *)
(* operation that emits never fails for it: it always goes on to resolve.  *)
(***************************************************************************)
C19_Step ==
  \A op \in EmitOps :
    EmitCall(op) =>
       /\ emitted'.invoked = DOMAIN eventListeners
       /\ emitted'.outcome = "returned"
       /\ emitOp'.pc \in {"settling", "emitted"}

C19_HandlerIsolation == [](emitOp.pc # "rejected") /\ [][C19_Step]_vars

\* a set has resolved after an emission to three handlers of which the first
\* threw and the second returned a promise that rejects
C19_Witness ==
  /\ eventListeners = <<"throws", "rejects", "returns">>
  /\ emitted.invoked = {1, 2, 3}
  /\ emitted.logged = 1
  /\ emitOp = [op |-> "set", pc |-> "resolved"]

(***************************************************************************)
(* C20 (stated as claimed): TTL resolution of set, on every driver.  The   *)
(* entry a set has stored expires ttl seconds after the set when the call  *)
(* gave a finite ttl, else the configured default after the set when the   *)
(* argument was left out and the options hold a finite default, and never  *)
(* when the effective ttl is infinite (or 0) or no default is configured.  *)
(***************************************************************************)
\* the ttl the last set of k resolves to: the argument, else options.ttl, else
\* Infinity
effectiveTtl(k) ==
  IF ttlLast[k].ttl # Undefined THEN ttlLast[k].ttl
  ELSE IF ttlOptions.ttl # Undefined THEN ttlOptions.ttl
  ELSE Infinity

C20_TtlResolution ==
  \A k \in TtlKeys :
     ttlEntries[k] # Absent =>
        IF effectiveTtl(k) \in {0, Infinity}
        THEN ttlEntries[k].expiresAt \in {NoExpiry, Infinity}
        ELSE ttlEntries[k].expiresAt = ttlLast[k].at + effectiveTtl(k)

(***************************************************************************)
(* C21 (stated as claimed): the bounded in-process store.  With maxSize M, *)
(* a set that inserts a new key leaves that key stored, leaves             *)
(* min(n, M) entries where n is the number of entries with the new one,    *)
(* and the entries left are the most recently used ones (by get / set).    *)
(***************************************************************************)
C21_Step ==
  \A c \in MemSets :
     LET k == MemParseKey(c[1])
         M == memOptions.maxSize
         had == {q \in MemKeys : data[q] # Absent /\ ~IsUnder(q, k)} \cup {k}
         kept == {q \in MemKeys : data'[q] # Absent}
         live == SelectSeq(trackAccess(accessOrder, k), LAMBDA q : q \in had)
         first == IF Len(live) > M THEN Len(live) - M + 1 ELSE 1
     IN  (MemLookup(data, k) = Absent /\ MemSet(c[1], c[2], c[3])) =>
            /\ k \in kept
            /\ Cardinality(kept) = IF Cardinality(had) > M THEN M ELSE Cardinality(had)
            /\ kept = {live[i] : i \in first..Len(live)}

C21_BoundedStore == [][C21_Step]_vars

(***************************************************************************)
(* C22 (stated as claimed): the entry invariant.  Every entry stored by    *)
(* the in-process driver (CacheData) and by the LRU driver (node) carries  *)
(* an expiry exactly when its effective TTL is finite and not 0; with TTL  *)
(* 0, an infinite TTL or forever it carries none.                          *)
(***************************************************************************)
C22_EntryInvariant ==
  ttlOptions.name \in {"memory", "lru"} =>
     \A k \in TtlKeys :
        ttlEntries[k] # Absent =>
           (ttlEntries[k].expiresAt # NoExpiry <=> effectiveTtl(k) \notin {0, Infinity})

(***************************************************************************)
(* C23 (stated as claimed): sweep liveness.  On a driver that is not       *)
(* disconnected, an entry with a finite TTL that is neither read,          *)
(* overwritten nor removed does not stay stored for ever once its expiry   *)
(* has passed: the periodic sweep removes it.                              *)
(***************************************************************************)
\* the sweep takes an entry once expiresAt <= Date.now()
C23_PastDue(k) ==
  /\ data[k] # Absent
  /\ data[k].expiresAt \notin {NoExpiry, Infinity}
  /\ data[k].expiresAt <= now

C23_SweepLiveness == \A r \in MemRawKeys : []<>(~C23_PastDue(MemParseKey(r)))

(***************************************************************************)
(* C24: sweep cancellation.  At any time at most one cleanup timer of the  *)
(* driver is active, and once disconnect() has completed no cleanup        *)
(* callback starts unless startCleanup is called again.                    *)
(***************************************************************************)
C24_Step == sweeping' > sweeping => ~stopped

C24_SweepCancellation == [](Cardinality(timers) <= 1) /\ [][C24_Step]_vars

\* startCleanup was called a second time, the second timer has fired, and
\* disconnect() has completed
C24_Witness ==
  /\ stopped
  /\ created = 2
  /\ ticked = 2
  /\ timers = {}

(***************************************************************************)
(* C25 (stated as claimed): a failed load leaves the manager unchanged.    *)
(* When a load(name), driver(name), use(name) or init() fails (no          *)
(* constructor under the name, setOptions throwing, or connect rejecting)  *)
(* the active driver is as before and no driver is cached under the name,  *)
(* so that a later load(name) constructs again.                            *)
(***************************************************************************)
C25_Step ==
  \A c \in MgrCalls :
     (calls[c].pc # "failed" /\ calls'[c].pc = "failed") =>
        /\ currentDriver' = currentDriver
        /\ calls'[c].name \in MgrNames => loadedDrivers'[calls'[c].name] = NoInst

C25_FailedLoad == [][C25_Step]_vars

(***************************************************************************)
(* C26 (stated as claimed): idempotent removal.  remove(k) for a key whose *)
(* canonical form holds no entry leaves every stored entry, every expiry   *)
(* registration and the access order as they were.                         *)
(***************************************************************************)
C26_Step ==
  \A r \in MemRawKeys :
     (data[MemParseKey(r)] = Absent /\ MemRemove(r)) =>
        /\ data' = data
        /\ temporaryData' = temporaryData
        /\ accessOrder' = accessOrder

C26_IdempotentRemoval == [][C26_Step]_vars

(***************************************************************************)
(* C27 (stated as claimed): auto-remove on expired read.  When get(k) of   *)
(* the in-process driver finds an entry whose expiry has passed, it        *)
(* returns null and the entry under the canonical key that was read is no  *)
(* longer stored, with and without a global prefix.                        *)
(***************************************************************************)
C27_Step ==
  \A r \in MemRawKeys :
     (/\ memOptions.name = "memory"
      /\ data[MemParseKey(r)] # Absent
      /\ data[MemParseKey(r)].expiresAt # NoExpiry
      /\ data[MemParseKey(r)].expiresAt < now
      /\ MemGet(r)) =>
        /\ memRet' = Null
        /\ data'[MemParseKey(r)] = Absent

C27_AutoRemove == [][C27_Step]_vars

(***************************************************************************)
(* C28 (stated as claimed): hit / miss accounting.  Every get of the       *)
(* in-process driver and of its sliding-expiration variant emits exactly   *)
(* one event: `miss` when it returns null and `hit` otherwise.             *)
(***************************************************************************)
C28_Step ==
  \A r \in MemRawKeys :
     MemGet(r) => memEvents' = IF memRet' = Null THEN <<"miss">> ELSE <<"hit">>

C28_HitMissAccounting == [][C28_Step]_vars

(***************************************************************************)
(* C29 (stated as claimed): sliding expiration.  In the sliding variant a  *)
(* hit at time t on an entry stored with a finite TTL T sets the entry's   *)
(* expiry and its sweep registration to t + T, and a hit on an entry       *)
(* stored with TTL 0 or an infinite TTL leaves it non-expiring.            *)
(***************************************************************************)
C29_Step ==
  \A r \in MemRawKeys :
     LET k == MemParseKey(r)
         e == data[k]
     IN  (e # Absent /\ MemGet(r) /\ memRet' # Null) =>
            IF e.ttl \notin {0, Infinity}
            THEN /\ data'[k].expiresAt = now + e.ttl
                 /\ temporaryData'[k].expiresAt = now + e.ttl
            ELSE data'[k].expiresAt \in {NoExpiry, Infinity}

C29_SlidingExpiration == [][C29_Step]_vars

(***************************************************************************)
(* C30: the generic increment reads, then writes, with a suspension in     *)
(* between.  An increment call that no other increment call on its key     *)
(* overlaps leaves the key holding the number it held when the call        *)
(* finished plus the call's delta (an absent or null key counting as 0),   *)
(* so two calls of increment(k, 1) that do not overlap leave current + 2;  *)
(* and there is an interleaving of two overlapping increment(k, 1) calls   *)
(* after which k holds current + 1: C30_Witness is its final state.        *)
(***************************************************************************)
C30_Step ==
  \A c \in IncCallers :
    LET call == incCalls[c]
        held == counters[call.key]
    IN  (/\ IncFinish(c)
         /\ ~call.overlapped
         /\ held.type \in {"number", "null"})
        => /\ incRet'.error = "none"
           /\ counters'[call.key] =
                JsNum((IF held.type = "number" THEN held.num ELSE 0) + call.delta)
           /\ incRet'.value = counters'[call.key].num

C30_LostUpdate == [][C30_Step]_vars

\* two overlapping increment(k, 1) calls that both read 0 have finished and
\* k holds 1
C30_Witness ==
  /\ \A c \in IncCallers :
        /\ incCalls[c].pc = "done"
        /\ incCalls[c].key = incCalls[1].key
        /\ incCalls[c].delta = 1
        /\ incCalls[c].overlapped
        /\ incCalls[c].current = JsNum(0)
  /\ counters[incCalls[1].key] = JsNum(1)

\* the same two calls one after the other: neither overlapped, k holds 2
C30_Sequential ==
  /\ \A c \in IncCallers :
        /\ incCalls[c].pc = "done"
        /\ incCalls[c].key = incCalls[1].key
        /\ incCalls[c].delta = 1
        /\ ~incCalls[c].overlapped
  /\ incCalls[1].current = JsNum(0)
  /\ incCalls[2].current = JsNum(1)
  /\ counters[incCalls[1].key] = JsNum(2)

(***************************************************************************)
(* C31 (stated as claimed): after a tagged set(k, v) that nothing          *)
(* overlaps, the wrapped driver returns v for k, and the key list of every *)
(* tag bound to the instance holds the canonical key of k exactly once,    *)
(* also when the set is repeated.                                          *)
(***************************************************************************)
Occurrences(q, e) == Cardinality({i \in DOMAIN q : q[i] = e})

C31_Step ==
  \A T \in TagLists, k \in TagRawKeys, v \in TagValues :
    TagSet(T, k, v) =>
      /\ drvGet(wrapped', k).val = v
      /\ \A t \in Range(T) : Occurrences(listOf(wrapped', t), TagParseKey(k)) = 1

C31_TaggedSet == [][C31_Step]_vars

(***************************************************************************)
(* C32 (stated as claimed): of two tagged remember calls on the same key   *)
(* of which the second was issued before the first returned, at most one   *)
(* invokes the producer, and both return the same value.                   *)
(***************************************************************************)
C32_TaggedRemember ==
  \A c \in TagCallers : \A o \in tagCalls[c].with :
    /\ ~(tagCalls[c].ticket # 0 /\ tagCalls[o].ticket # 0)
    /\ (tagCalls[c].pc = "done" /\ tagCalls[o].pc = "done")
         => tagCalls[c].result = tagCalls[o].result

(***************************************************************************)
(* C37 (stated as claimed): when all tagged set calls have completed, the  *)
(* key list of every tag holds the canonical key of every call that was    *)
(* bound to the tag.                                                       *)
(***************************************************************************)
C37_NoLostMembership ==
  (\A c \in TagCallers : tagCalls[c].pc = "done" /\ tagCalls[c].op = "set") =>
    \A c \in TagCallers : \A t \in Range(tagCalls[c].tags) :
      TagParseKey(tagCalls[c].key) \in Range(listOf(wrapped, t))

(***************************************************************************)
(* C33 (stated as claimed): a handler registered with once is invoked at   *)
(* most once over the whole run, whatever its first invocation does and    *)
(* whether or not emissions overlap, and once an invocation of it is over  *)
(* it is no longer registered.                                             *)
(***************************************************************************)
C33_OneTimeListener ==
  \A h \in OnceHandlers :
    /\ onceHandlers[h].invoked <= 1
    /\ (onceHandlers[h].invoked > 0 /\ onceHandlers[h].pending = 0)
         => ~onceHandlers[h].registered

(***************************************************************************)
(* C34 (stated as claimed): a node that a step of the LRU sweep unlinks    *)
(* and deletes has an expiry, and that expiry has passed when the step is  *)
(* taken, also when set calls ran while the sweep was suspended.           *)
(***************************************************************************)
C34_Step ==
  (SweepStart \/ SweepResume) =>
    \A k \in LruKeys :
      (cache[k] # NullNode /\ cache'[k] = NullNode) =>
        /\ nodes[cache[k]].expiresAt # NoExpiry
        /\ nodes[cache[k]].expiresAt <= now

C34_SweepOnlyExpired == [][C34_Step]_vars

(***************************************************************************)
(* C35 (stated as claimed): an entry that a step of the in-process sweep   *)
(* removes has an expiry of its own, and that expiry has passed when the   *)
(* step is taken, whatever sets of the key, removeNamespace and flush came *)
(* before.                                                                 *)
(***************************************************************************)
C35_Step ==
  (MemSweepStart \/ MemSweepResume) =>
    \A q \in DOMAIN data :
      (data[q] # Absent /\ data'[q] = Absent) =>
        /\ data[q].expiresAt # NoExpiry
        /\ data[q].expiresAt <= now

C35_SweepOwnExpiry == [][C35_Step]_vars

(***************************************************************************)
(* C36 (stated as claimed): on the in-process store without a size bound,  *)
(* a set(k, v) or remove(k) step leaves the result that get would return   *)
(* for every other canonical key as it was, keys nested under k and keys   *)
(* that k is nested under included (null and undefined both counting as   *)
(* no value).                                                              *)
(***************************************************************************)
\* what get(key) would return on the store d at the present time; for a path
\* that holds nested entries only, get returns undefined
getResult(d, q) ==
  LET found == MemLookup(d, q)
      ttl == IF found.ttl # 0 THEN found.ttl
             ELSE IF memOptions.ttl # Undefined THEN memOptions.ttl ELSE 0
      sliding == memOptions.name = "memoryExtended" /\ found # Absent /\ ttl # 0
      expiresAt == IF sliding THEN getExpiresAt(ttl) ELSE found.expiresAt
  IN  IF found = Absent \/ (expiresAt # NoExpiry /\ expiresAt < now) THEN Null
      ELSE found.data

C36_Step ==
  \A r \in MemRawKeys :
    ((\E c \in MemSets : c[1] = r /\ MemSet(c[1], c[2], c[3])) \/ MemRemove(r)) =>
      \A q \in MemKeys \ {MemParseKey(r)} :
        \/ getResult(data', q) = getResult(data, q)
        \/ {getResult(data', q), getResult(data, q)} \subseteq {Null, Interior.data}

C36_PerKeyFrame == [][C36_Step]_vars

(***************************************************************************)
(* C38 (stated as claimed): on the memory and LRU drivers, a write by the  *)
(* caller to an object it built and handed to set (o1, or o2 within it)    *)
(* leaves the content of every stored value, which is what later gets      *)
(* return, as it was.                                                      *)
(***************************************************************************)
C38_Step ==
  \A r \in {"o1", "o2"}, x \in Prims :
    CopyMutate(r, x) =>
      \A e \in DOMAIN entries :
        Content(heap', entries'[e]) = Content(heap, entries[e])

C38_StoredIsolation == [][C38_Step]_vars

(***************************************************************************)
(* C39 (stated as claimed): has(k) for a key that holds an unexpired entry *)
(* returns true and leaves the store as it was: the nodes with their       *)
(* values and expiries, the index, and the order of the list from most to  *)
(* least recently used.                                                    *)
(***************************************************************************)
C39_Step ==
  \A k \in LruRawKeys :
    (/\ LruHas(k)
     /\ cache[LruParseKey(k)] # NullNode
     /\ ~isExpired(cache[LruParseKey(k)])) =>
       /\ lruHasResult(k)
       /\ cache' = cache
       /\ nodes' = nodes
       /\ list' = list
       /\ recency' = recency

C39_HasIsPure == [][C39_Step]_vars

(***************************************************************************)
(* C40 (stated as claimed): with maxSize configured, in every state the    *)
(* access-order list of the memory driver holds every canonical key that   *)
(* has an entry exactly once, and no other key.                            *)
(***************************************************************************)
C40_AccessOrder ==
  /\ Range(accessOrder) = {q \in DOMAIN data : data[q] # Absent}
  /\ \A i, j \in DOMAIN accessOrder : accessOrder[i] = accessOrder[j] => i = j

====
